---- MODULE Spec2Model ----
(***************************************************************************)
(* State-machine model of the three crawl scripts of FringePlatformScrapers *)
(*   chan : src/4chan/updated_4_chan_scraper.py   (4plebs archive crawl)    *)
(*   gabx : src/gab_scraper_14.py                 (Gab explore crawl)       *)
(*   gabr : src/gab/gab_past_post_rescraper.py    (Gab URL-list rescrape)   *)
(* One run of one script is one behaviour.  The rendering collaborator      *)
(* (selenium), the keyboard and the listing pages are the environment.      *)
(***************************************************************************)
EXTENDS Integers, Sequences, FiniteSets, TLC

\* ---------------------------------------------------------------- bounds
\* thread ids 1..NumThreads exist on the archive
NumThreads == 8
\* longest listing page the archive serves
MaxPageLen == 5
\* number of distinct Gab post URLs
NumGabUrls == 2
\* longest list of link elements on the explore page
MaxLinks == 2
\* longest input list of the rescraper (gab_urls_4.json)
MaxListLen == 2
\* largest configured target besides the ones that span two archive pages
MaxSmallTarget == 1
\* longest text handed to extract_count_from_string
MaxTextLen == 4
\* most parenthesized annotations after one timestamp
MaxAnnotations == 2
\* conditions handed to any_of_conditions
NumStrategies == 3
\* most polls that fit one wait
MaxPolls == 3
\* most images in the markup of one post
MaxImgs == 2
\* most reply elements on one page
MaxReplies == 2
\* runs of one script in one working directory
MaxRuns == 2
\* the clock stops after this many ticks
MaxTicks == 4
\* most records one run accumulates
MaxRunPosts == 1

\* ------------------------------------------------------- program constants
posts_per_page == 10

\* --------------------------------------------------------------- helpers
Range(s) == {s[k] : k \in 1..Len(s)}

NoDuplicates(s) == \A a, b \in 1..Len(s) : s[a] = s[b] => a = b

SeqsUpTo(S, n) == UNION {[1..k -> S] : k \in 0..n}

Min(a, b) == IF a < b THEN a ELSE b

\* all_scraped_data[:target_posts]
Prefix(s, n) == SubSeq(s, 1, Min(Len(s), n))

\* ----------------------------------------------------- the 4plebs archive
\* A listing page is the sequence of the "id" attributes of its thread
\* articles; 0 stands for an article without an id.
Run(s, n) == [k \in 1..n |-> s + k - 1]

PageStarts == {1, 6}

ArchivePages ==
    {Run(x[1], x[2]) : x \in {y \in PageStarts \X (0..MaxPageLen) : y[1] + y[2] - 1 <= NumThreads}}
        \cup {<<0, 1>>}

\* f"https://archive.4plebs.org/pol/thread/{post_id}/"
ThreadUrl(post_id) == <<"https://archive.4plebs.org/pol/thread", post_id>>

RECURSIVE ThreadUrls(_)
ThreadUrls(ids) ==
    IF ids = <<>> THEN <<>>
    ELSE IF Head(ids) # 0 THEN <<ThreadUrl(Head(ids))>> \o ThreadUrls(Tail(ids))
         ELSE ThreadUrls(Tail(ids))

\* num_pages_to_scrape, ceiling division
num_pages_to_scrape(target_posts) == (target_posts + posts_per_page - 1) \div posts_per_page

\* ------------------------------------------------------------------ Gab
\* A Gab post URL; a raw href is either absolute or relative and is made
\* absolute by urljoin; hrefs of other hosts or without a post id fail the
\* validation.
GabUrl(k) == <<"https://gab.com/u/posts", k>>

GabUrls == {GabUrl(k) : k \in 1..NumGabUrls}

RawHrefs == [form : {"abs", "rel"}, k : 1..NumGabUrls] \cup {[form |-> "other", k |-> 0]}

\* urljoin(driver.current_url, raw_url) with whitespace removed
urljoin(raw) == IF raw.form = "other" THEN <<"https://other.example", raw.k>> ELSE GabUrl(raw.k)

\* ----------------------------------------------------------------- files
FileNames == {"pol_archive_all_threads_data.json", "gab_data", "gab_data_from_list",
              "gab_data_interrupt_dump", "gab_data_error_dump"}

Absent == [st |-> "absent", data |-> <<>>]
\* open(name, "w") truncates; the array is not complete until json.dump returns
Opened == [st |-> "partial", data |-> <<>>]
Dumped(records) == [st |-> "complete", data |-> records]

\* a record is identified by its post_url
Record(url) == [post_url |-> url]

VARIABLES
    script,                 \* which script runs
    target,                 \* target_posts / POSTS_TO_SCRAPE
    archive,                \* chan: listing page number -> thread ids
    gab_urls,               \* gabr: the input URL list
    pc,                     \* position of the run
    page_num,               \* chan: current listing page
    thread_urls_on_page,    \* chan: URLs of the current listing page
    i,                      \* loop index (0-based) of the current loop
    current_link_elements,  \* gabx: raw hrefs of the link elements
    unique_post_urls,       \* gabx: ordered candidate list
    processed_urls,         \* gabx: seen-set
    dataset,                \* all_scraped_data / dataset
    files,                  \* the output directory
    sessions,               \* webdriver sessions created and not quit
    exit_code,              \* how the process ended
    attempts,               \* history: URLs the extractor was invoked on
    skipped,                \* history: URLs skipped because no tab opened
    discovered,             \* history: URLs returned by the listings
    listings,               \* history: number of listing lookups
    empty_at,               \* history: value of listings when a listing was empty, else 0
    interrupted,            \* history: a KeyboardInterrupt was delivered
    late_append,            \* history: a record was appended after an interrupt
    fault,                  \* history: the rendering session raised
    k_fault,                \* history: Len(dataset) at the session fault
    persists,               \* history: completed json.dump calls
    restarted,              \* history: gabx restarted the collection
    last_result,            \* history: what the last extractor call returned
    pending                 \* exception that propagates while a finally block runs

crawlVars == <<script, target, archive, gab_urls, pc, page_num, thread_urls_on_page, i,
               current_link_elements, unique_post_urls, processed_urls, dataset, files,
               sessions, exit_code, attempts, skipped, discovered, listings, empty_at,
               interrupted, late_append, fault, k_fault, persists, restarted, last_result, pending>>

\* ------------------------------------------------ state outside the crawl
\* The field normalizers are pure functions; a call is a state of its own:
\* the argument, and the value returned.
VARIABLES
    norm_pc,                \* which normalizer is called, and whether it returned
    text_to_parse,          \* argument of extract_count_from_string
    count,                  \* its return value
    dt_string,              \* argument of parse_gab_datetime
    timestamp_iso           \* its return value

normVars == <<norm_pc, text_to_parse, count, dt_string, timestamp_iso>>

\* One field lookup: WebDriverWait(scope, t).until(any_of_conditions(c1, ..., cn)).
VARIABLES
    res_pc,                 \* position of the lookup
    appears,                \* environment: the poll from which condition k locates an element, 0: never
    wait_polls,             \* environment: the polls that fit the wait
    poll,                   \* the current poll of until()
    cidx,                   \* position in self.conditions
    invoked,                \* history: <<poll, condition>> of every condition call
    located,                \* the condition whose element until() returned, 0: none
    field                   \* what the caller stores for the field

resolverVars == <<res_pc, appears, wait_polls, poll, cidx, invoked, located, field>>

ResolverIdle ==
    /\ res_pc = "idle"
    /\ appears = <<>>
    /\ wait_polls = 0
    /\ poll = 0
    /\ cidx = 0
    /\ invoked = <<>>
    /\ located = 0
    /\ field = "unset"

\* One call of an extractor on one rendered page.
VARIABLES
    ext_pc,                 \* position of the call
    extractor,              \* which script's extractor is called
    min_post_age_days,      \* MIN_POST_AGE_DAYS
    min_replies_required,   \* MIN_REPLIES_REQUIRED
    now_utc,                \* datetime.now(timezone.utc), in seconds
    page,                   \* environment: the rendered page
    post_data               \* the value the extractor returned

extractVars == <<ext_pc, extractor, min_post_age_days, min_replies_required, now_utc, page, post_data>>

\* a page on which nothing appears
NoPage == [container |-> FALSE, srcs |-> <<>>, timestamp |-> <<"TimeoutException">>,
           replies |-> <<>>]

ExtractIdle ==
    /\ ext_pc = "idle"
    /\ extractor = "none"
    /\ min_post_age_days = 0
    /\ min_replies_required = 0
    /\ now_utc = 0
    /\ page = NoPage
    /\ post_data = [post_url |-> <<>>]

\* One run of an OCR enrichment script over one dataset file, and a second
\* run over the file the first one wrote.
VARIABLES
    ocr_pc,          \* "post", "reply", "dump", "written" or "crashed"
    ocr_script,      \* "chan" (ocr_extractor.py) or "gab" (gab_ocr_extractor.py)
    ocr_pass,        \* 1, or 2 when the script runs on its own output
    ocr_input,       \* the content of the input file
    ocr_data,        \* data = json.load(f), mutated in place
    pidx,            \* position of the loop over data
    ridx,            \* position of the loop over post["replies"]
    uidx,            \* position of the loop over the image urls
    image_texts,     \* image_texts / new_post_images of the current post
    fetch_log,       \* what this run has handed to the fetch, and what came back
    ocr_output       \* the content of the output file

ocrVars == <<ocr_pc, ocr_script, ocr_pass, ocr_input, ocr_data, pidx, ridx, uidx,
             image_texts, fetch_log, ocr_output>>

OcrIdle ==
    /\ ocr_pc = "idle"
    /\ ocr_script = "none"
    /\ ocr_pass = 1
    /\ ocr_input = <<>>
    /\ ocr_data = <<>>
    /\ pidx = 1
    /\ ridx = 1
    /\ uidx = 1
    /\ image_texts = <<>>
    /\ fetch_log = <<>>
    /\ ocr_output = Absent

\* Runs of one crawl script, one after the other, in one working directory.
VARIABLES
    run_script,      \* the script that is run: "chan", "gabx" or "gabr"
    run_no,          \* which run this is
    run_pc,          \* "running" or "exited"
    logged_in,       \* the login wait, time.sleep(90), is over (Gab scripts)
    run_dataset,     \* all_scraped_data / dataset of the current run
    now_ticks,       \* datetime.now(timezone.utc), in ticks
    disk,            \* the files of the working directory: name and content
    persisted        \* for each persist so far: the run, the name, the content

runsVars == <<run_script, run_no, run_pc, logged_in, run_dataset, now_ticks, disk,
              persisted>>

RunsIdle ==
    /\ run_script = "none"
    /\ run_no = 1
    /\ run_pc = "idle"
    /\ logged_in = FALSE
    /\ run_dataset = <<>>
    /\ now_ticks = 0
    /\ disk = {}
    /\ persisted = <<>>

\* One download of the OCR scripts: session.get(url) / requests.get(url).
VARIABLES
    fetch_pc,               \* position of the download
    fetch_script,           \* "chan": ocr_extractor.py, "gab": gab_ocr_extractor.py
    retries,                \* the Retry object of the adapter, as urlopen carries it along
    tried,                  \* history: what every attempt met
    fetch_result            \* what the try block around the download sees

fetchVars == <<fetch_pc, fetch_script, retries, tried, fetch_result>>

NoRetry == [total |-> 0, connect |-> <<>>, read |-> <<>>, read_off |-> TRUE]

FetchIdle ==
    /\ fetch_pc = "idle"
    /\ fetch_script = "none"
    /\ retries = NoRetry
    /\ tried = <<>>
    /\ fetch_result = "none"

sideVars == <<normVars, resolverVars, extractVars, ocrVars, runsVars, fetchVars>>

vars == <<crawlVars, sideVars>>

\* None, as an argument or a return value
None == <<"None">>

NormIdle ==
    /\ norm_pc = "idle"
    /\ text_to_parse = None
    /\ count = None
    /\ dt_string = None
    /\ timestamp_iso = None

\* every part of the state but part g is at rest
SideIdleExcept(g) ==
    /\ IF g = "norm" THEN TRUE ELSE NormIdle
    /\ IF g = "resolver" THEN TRUE ELSE ResolverIdle
    /\ IF g = "extract" THEN TRUE ELSE ExtractIdle
    /\ IF g = "ocr" THEN TRUE ELSE OcrIdle
    /\ IF g = "runs" THEN TRUE ELSE RunsIdle
    /\ IF g = "fetch" THEN TRUE ELSE FetchIdle

\* an action of part g leaves the other parts alone
FrameExcept(g) ==
    /\ IF g = "norm" THEN TRUE ELSE UNCHANGED normVars
    /\ IF g = "resolver" THEN TRUE ELSE UNCHANGED resolverVars
    /\ IF g = "extract" THEN TRUE ELSE UNCHANGED extractVars
    /\ IF g = "ocr" THEN TRUE ELSE UNCHANGED ocrVars
    /\ IF g = "runs" THEN TRUE ELSE UNCHANGED runsVars
    /\ IF g = "fetch" THEN TRUE ELSE UNCHANGED fetchVars

configVars == <<script, target, archive, gab_urls>>

chanVars == <<page_num, thread_urls_on_page>>

gabxVars == <<current_link_elements, unique_post_urls, processed_urls, restarted>>

intVars == <<interrupted, late_append>>

faultVars == <<fault, k_fault>>

outVars == <<files, persists>>

listVars == <<discovered, listings, empty_at>>

Targets == 1..MaxSmallTarget \cup {6, posts_per_page + 1}

MaxPages == num_pages_to_scrape(posts_per_page + 1)

NoArchive == [p \in 1..MaxPages |-> <<>>]

InitRun ==
    /\ pc = "start"
    /\ page_num = 1
    /\ thread_urls_on_page = <<>>
    /\ i = 0
    /\ current_link_elements = <<>>
    /\ unique_post_urls = <<>>
    /\ processed_urls = {}
    /\ dataset = <<>>
    /\ files = [n \in FileNames |-> Absent]
    /\ sessions = 0
    /\ exit_code = "none"
    /\ attempts = <<>>
    /\ skipped = <<>>
    /\ discovered = <<>>
    /\ listings = 0
    /\ empty_at = 0
    /\ interrupted = FALSE
    /\ late_append = FALSE
    /\ fault = FALSE
    /\ k_fault = 0
    /\ persists = 0
    /\ restarted = FALSE
    /\ last_result = "none"
    /\ pending = "none"

Init ==
    /\ script \in {"chan", "gabx", "gabr"}
    /\ target \in Targets
    /\ archive \in IF script = "chan" THEN [1..MaxPages -> ArchivePages] ELSE {NoArchive}
    /\ gab_urls \in IF script = "gabr" THEN SeqsUpTo(GabUrls, MaxListLen) ELSE {<<>>}
    /\ InitRun
    /\ SideIdleExcept("crawl")

\* --------------------------------------------------- history bookkeeping
NoteInterrupt ==
    /\ interrupted' = TRUE
    /\ UNCHANGED late_append

NoteFault ==
    /\ fault' = TRUE
    /\ k_fault' = IF fault THEN k_fault ELSE Len(dataset)

\* the process ends here
Exit(code) ==
    /\ pc' = "exited"
    /\ exit_code' = code

\* with open(name, "w") as f: the file exists and is empty
OpenFile(name) == files' = [files EXCEPT ![name] = Opened]

\* json.dump(records, f) has returned
DumpFile(name, records) ==
    /\ files' = [files EXCEPT ![name] = Dumped(records)]
    /\ persists' = persists + 1

\* the falsy result of an extractor: {} (scrape_pol_thread) or None (get_post_details)
NoData == [post_url |-> <<>>]

\* a falsy result is appended like any other
Accumulate_AppendAlways(ds, data) == Append(ds, data)

\* a record is put in front of the ones before it
Accumulate_Prepend(ds, data) == IF data # NoData THEN <<data>> \o ds ELSE ds

\* if data: all_scraped_data.append(data)
Accumulate(ds, data) == IF data # NoData THEN Append(ds, data) ELSE ds

ResultKind(data) == IF data # NoData THEN "record" ELSE "empty"

\* the caller of the extractor takes the result
TakeResult(data) ==
    /\ dataset' = Accumulate(dataset, data)
    /\ last_result' = ResultKind(data)
    /\ late_append' = (late_append \/ (interrupted /\ dataset' # dataset))
    /\ UNCHANGED interrupted

\* ===================================================================
\* chan: src/4chan/updated_4_chan_scraper.py
\* ===================================================================
PolFile == "pol_archive_all_threads_data.json"

\* how the process ends after the finally block of __main__
ChanExitCode == IF pending = "KeyboardInterrupt" THEN "KeyboardInterrupt" ELSE "0"

\* the pagination goes on after an empty listing page
AfterListing_NoBreak(urls) == "thread_loop"

\* if not thread_urls_on_page: break
AfterListing(urls) == IF urls = <<>> THEN "finally" ELSE "thread_loop"

\* the for loops go on unless the target is reached
PageLoopGoesOn == page_num <= num_pages_to_scrape(target) /\ Len(dataset) < target

ThreadLoopGoesOn == i < Len(thread_urls_on_page) /\ Len(dataset) < target

\* all_scraped_data = [] and the entry of the try block
ChanStart ==
    /\ script = "chan" /\ pc = "start"
    /\ pc' = "page_loop"
    /\ UNCHANGED <<configVars, chanVars, gabxVars, intVars, faultVars, outVars, listVars,
                   i, dataset, sessions, exit_code, attempts, skipped, last_result, pending>>
    /\ UNCHANGED sideVars

\* top of "for page_num" up to the creation of the driver of
\* get_thread_urls_from_archive_page, or the end of the loop
ChanPageLoop ==
    /\ script = "chan" /\ pc = "page_loop"
    /\ IF PageLoopGoesOn
       THEN /\ sessions' = sessions + 1
            /\ listings' = listings + 1
            /\ pc' = "listing"
       ELSE /\ pc' = "finally"
            /\ UNCHANGED <<sessions, listings>>
    /\ UNCHANGED <<configVars, chanVars, gabxVars, intVars, faultVars, outVars,
                   discovered, empty_at,
                   i, dataset, exit_code, attempts, skipped, last_result, pending>>
    /\ UNCHANGED sideVars

\* webdriver.Chrome raises in get_thread_urls_from_archive_page, outside its
\* try: "except Exception" of __main__ catches it
ChanListingDriverFault ==
    /\ script = "chan" /\ pc = "page_loop"
    /\ PageLoopGoesOn
    /\ NoteFault
    /\ listings' = listings + 1
    /\ pc' = "finally"
    /\ UNCHANGED <<configVars, chanVars, gabxVars, intVars, outVars, discovered, empty_at,
                   i, dataset, sessions, exit_code, attempts, skipped, last_result, pending>>
    /\ UNCHANGED sideVars

\* get_thread_urls_from_archive_page returns the thread URLs of the page, or
\* [] after an exception, and quits its driver; then "if not ...: break"
ChanListingReturn ==
    /\ script = "chan" /\ pc = "listing"
    /\ \E ok \in BOOLEAN :
         LET urls == IF ok THEN ThreadUrls(archive[page_num]) ELSE <<>> IN
           /\ discovered' = discovered \o urls
           /\ empty_at' = IF urls = <<>> /\ empty_at = 0 THEN listings ELSE empty_at
           /\ thread_urls_on_page' = urls
           /\ pc' = AfterListing(urls)
    /\ i' = 0
    /\ sessions' = sessions - 1
    /\ UNCHANGED <<configVars, page_num, gabxVars, intVars, faultVars, outVars, listings,
                   dataset, exit_code, attempts, skipped, last_result, pending>>
    /\ UNCHANGED sideVars

\* top of "for i, thread_url" up to the creation of the driver of
\* scrape_pol_thread, or the end of the loop
ChanThreadLoop ==
    /\ script = "chan" /\ pc = "thread_loop"
    /\ IF ThreadLoopGoesOn
       THEN /\ attempts' = Append(attempts, thread_urls_on_page[i + 1])
            /\ sessions' = sessions + 1
            /\ pc' = "extract"
            /\ UNCHANGED page_num
       ELSE /\ page_num' = page_num + 1
            /\ pc' = "page_loop"
            /\ UNCHANGED <<attempts, sessions>>
    /\ UNCHANGED <<configVars, thread_urls_on_page, gabxVars, intVars, faultVars, outVars,
                   listVars, i, dataset, exit_code, skipped, last_result, pending>>
    /\ UNCHANGED sideVars

\* webdriver.Chrome raises in scrape_pol_thread, outside its try
ChanExtractDriverFault ==
    /\ script = "chan" /\ pc = "thread_loop"
    /\ ThreadLoopGoesOn
    /\ attempts' = Append(attempts, thread_urls_on_page[i + 1])
    /\ NoteFault
    /\ pc' = "finally"
    /\ UNCHANGED <<configVars, chanVars, gabxVars, intVars, outVars, listVars,
                   i, dataset, sessions, exit_code, skipped, last_result, pending>>
    /\ UNCHANGED sideVars

\* scrape_pol_thread reaches one of its try blocks with a bare except
ChanEnterField ==
    /\ script = "chan" /\ pc = "extract"
    /\ pc' = "field"
    /\ UNCHANGED <<configVars, chanVars, gabxVars, intVars, faultVars, outVars, listVars,
                   i, dataset, sessions, exit_code, attempts, skipped, last_result, pending>>
    /\ UNCHANGED sideVars

\* the field is resolved, or its lookup raises and the field becomes None
ChanFieldDone ==
    /\ script = "chan" /\ pc = "field"
    /\ pc' = "tail"
    /\ UNCHANGED <<configVars, chanVars, gabxVars, intVars, faultVars, outVars, listVars,
                   i, dataset, sessions, exit_code, attempts, skipped, last_result, pending>>
    /\ UNCHANGED sideVars

\* scrape_pol_thread returns data; the caller appends it when it is truthy
ChanResult(data) ==
    /\ TakeResult(data)
    /\ i' = i + 1
    /\ sessions' = sessions - 1
    /\ pc' = "thread_loop"
    /\ UNCHANGED <<configVars, chanVars, gabxVars, faultVars, outVars, listVars,
                   exit_code, attempts, skipped, pending>>

\* an exception inside the try of scrape_pol_thread: return {}
ChanExtractFail ==
    /\ script = "chan" /\ pc \in {"extract", "tail"}
    /\ ChanResult(NoData)
    /\ UNCHANGED sideVars

\* return thread_data
ChanExtractReturn ==
    /\ script = "chan" /\ pc = "tail"
    /\ ChanResult(Record(thread_urls_on_page[i + 1]))
    /\ UNCHANGED sideVars

\* KeyboardInterrupt inside the try of __main__ and outside the bare excepts:
\* the drivers are quit by the finally blocks, "except KeyboardInterrupt"
\* re-raises, and the finally block of __main__ runs
ChanInterruptPropagates ==
    /\ script = "chan" /\ pc \in {"page_loop", "listing", "thread_loop", "extract", "tail"}
    /\ NoteInterrupt
    /\ sessions' = 0
    /\ pending' = "KeyboardInterrupt"
    /\ pc' = "finally"
    /\ UNCHANGED <<configVars, chanVars, gabxVars, faultVars, outVars, listVars,
                   i, dataset, exit_code, attempts, skipped, last_result>>
    /\ UNCHANGED sideVars

\* KeyboardInterrupt inside a try block with a bare except: the field becomes
\* None and scrape_pol_thread goes on
ChanInterruptSwallowed ==
    /\ script = "chan" /\ pc = "field"
    /\ NoteInterrupt
    /\ pc' = "tail"
    /\ UNCHANGED <<configVars, chanVars, gabxVars, faultVars, outVars, listVars,
                   i, dataset, sessions, exit_code, attempts, skipped, last_result, pending>>
    /\ UNCHANGED sideVars

\* KeyboardInterrupt inside the finally block (before the open, or during
\* json.dump: "except Exception" does not catch it)
ChanInterruptDies ==
    /\ script = "chan" /\ pc \in {"finally", "saving"}
    /\ NoteInterrupt
    /\ Exit("KeyboardInterrupt")
    /\ UNCHANGED <<configVars, chanVars, gabxVars, faultVars, outVars, listVars,
                   i, dataset, sessions, attempts, skipped, last_result, pending>>
    /\ UNCHANGED sideVars

\* finally: if all_scraped_data: open(output_filename, "w") else print
ChanFinally ==
    /\ script = "chan" /\ pc = "finally"
    /\ IF dataset # <<>>
       THEN /\ OpenFile(PolFile)
            /\ pc' = "saving"
            /\ UNCHANGED exit_code
       ELSE /\ Exit(ChanExitCode)
            /\ UNCHANGED files
    /\ UNCHANGED <<configVars, chanVars, gabxVars, intVars, faultVars, persists, listVars,
                   i, dataset, sessions, attempts, skipped, last_result, pending>>
    /\ UNCHANGED sideVars

\* json.dump(all_scraped_data[:target_posts], f)
ChanDump ==
    /\ script = "chan" /\ pc = "saving"
    /\ DumpFile(PolFile, Prefix(dataset, target))
    /\ Exit(ChanExitCode)
    /\ UNCHANGED <<configVars, chanVars, gabxVars, intVars, faultVars, listVars,
                   i, dataset, sessions, attempts, skipped, last_result, pending>>
    /\ UNCHANGED sideVars

ChanNext ==
    \/ ChanStart
    \/ ChanPageLoop
    \/ ChanListingDriverFault
    \/ ChanListingReturn
    \/ ChanThreadLoop
    \/ ChanExtractDriverFault
    \/ ChanEnterField
    \/ ChanFieldDone
    \/ ChanExtractFail
    \/ ChanExtractReturn
    \/ ChanInterruptPropagates
    \/ ChanInterruptSwallowed
    \/ ChanInterruptDies
    \/ ChanFinally
    \/ ChanDump

\* ===================================================================
\* gabx: src/gab_scraper_14.py
\* ===================================================================
\* find_elements(By.XPATH, '//main//a[contains(@href, "/posts/")]')
LinkLists == SeqsUpTo(RawHrefs, MaxLinks)

\* url and "/posts/" in url and url.startswith("https://gab.com/") and
\* len(post_id_candidate) > 5 and post_id_candidate.isalnum()
IsPostUrl(url) == url \in GabUrls

\* the seen-set is not consulted
PassesValidation_NoSeenCheck(url, processed) == IsPostUrl(url)

\* ... and url not in processed_urls
PassesValidation(url, processed) == IsPostUrl(url) /\ url \notin processed

CollectGoesOn == i < Len(current_link_elements) /\ Len(unique_post_urls) < target

PostLoopGoesOn == i < Len(unique_post_urls) /\ Len(dataset) < target

\* webdriver.Chrome(service=service, options=chrome_options)
GabxStart ==
    /\ script = "gabx" /\ pc = "start"
    /\ sessions' = sessions + 1
    /\ pc' = "explore"
    /\ UNCHANGED <<configVars, chanVars, gabxVars, intVars, faultVars, outVars, listVars,
                   i, dataset, exit_code, attempts, skipped, last_result, pending>>
    /\ UNCHANGED sideVars

\* a call of the driver raises outside every try of main: the creation of
\* the driver, driver.get, scroll_to_end, find_elements, window.open and
\* switch_to.window before get_post_details; the process ends with a traceback
GabxSessionFault ==
    /\ script = "gabx"
    /\ \/ pc \in {"start", "explore"}
       \/ pc = "post_loop" /\ PostLoopGoesOn
    /\ NoteFault
    /\ Exit("Exception")
    /\ UNCHANGED <<configVars, chanVars, gabxVars, intVars, outVars, listVars,
                   i, dataset, sessions, attempts, skipped, last_result, pending>>
    /\ UNCHANGED sideVars

\* the wait for the explore page times out: driver.quit(); return
GabxExploreTimeout ==
    /\ script = "gabx" /\ pc = "explore"
    /\ sessions' = 0
    /\ Exit("0")
    /\ UNCHANGED <<configVars, chanVars, gabxVars, intVars, faultVars, outVars, listVars,
                   i, dataset, attempts, skipped, last_result, pending>>
    /\ UNCHANGED sideVars

\* the explore page is there: scroll_to_end, then the link elements are read
GabxExploreReady ==
    /\ script = "gabx" /\ pc = "explore"
    /\ current_link_elements' \in LinkLists
    /\ listings' = listings + 1
    /\ i' = 0
    /\ pc' = "collect"
    /\ UNCHANGED <<configVars, chanVars, unique_post_urls, processed_urls, restarted,
                   intVars, faultVars, outVars, discovered, empty_at,
                   dataset, sessions, exit_code, attempts, skipped, last_result, pending>>
    /\ UNCHANGED sideVars

\* one iteration of the collection loop without an exception
GabxCollectUrl ==
    /\ script = "gabx" /\ pc = "collect"
    /\ CollectGoesOn
    /\ LET url == urljoin(current_link_elements[i + 1]) IN
         IF PassesValidation(url, processed_urls)
         THEN /\ unique_post_urls' = Append(unique_post_urls, url)
              /\ processed_urls' = processed_urls \cup {url}
         ELSE UNCHANGED <<unique_post_urls, processed_urls>>
    /\ i' = i + 1
    /\ UNCHANGED <<configVars, chanVars, current_link_elements, restarted,
                   intVars, faultVars, outVars, listVars, pc,
                   dataset, sessions, exit_code, attempts, skipped, last_result, pending>>
    /\ UNCHANGED sideVars

\* except StaleElementReferenceException: re-collect, clear, i = 0, continue
GabxCollectStale ==
    /\ script = "gabx" /\ pc = "collect"
    /\ CollectGoesOn
    /\ current_link_elements' \in LinkLists
    /\ unique_post_urls' = <<>>
    /\ processed_urls' = {}
    /\ i' = 0
    /\ restarted' = TRUE
    /\ UNCHANGED <<configVars, chanVars, intVars, faultVars, outVars, listVars, pc,
                   dataset, sessions, exit_code, attempts, skipped, last_result, pending>>
    /\ UNCHANGED sideVars

\* except Exception: pass
GabxCollectError ==
    /\ script = "gabx" /\ pc = "collect"
    /\ CollectGoesOn
    /\ i' = i + 1
    /\ UNCHANGED <<configVars, chanVars, gabxVars, intVars, faultVars, outVars, listVars, pc,
                   dataset, sessions, exit_code, attempts, skipped, last_result, pending>>
    /\ UNCHANGED sideVars

\* the collection loop ends; if not unique_post_urls: driver.quit(); return
GabxCollectEnd ==
    /\ script = "gabx" /\ pc = "collect"
    /\ ~CollectGoesOn
    /\ discovered' = unique_post_urls
    /\ IF unique_post_urls = <<>>
       THEN /\ sessions' = 0
            /\ empty_at' = listings
            /\ Exit("0")
            /\ UNCHANGED i
       ELSE /\ i' = 0
            /\ pc' = "post_loop"
            /\ UNCHANGED <<sessions, empty_at, exit_code>>
    /\ UNCHANGED <<configVars, chanVars, gabxVars, intVars, faultVars, outVars, listings,
                   dataset, attempts, skipped, last_result, pending>>
    /\ UNCHANGED sideVars

\* top of "for i, url in enumerate(unique_post_urls)": a tab is opened and
\* get_post_details is called; or the loop ends: driver.quit() and, if
\* dataset, open(output_filename, 'w')
GabxPostLoop ==
    /\ script = "gabx" /\ pc = "post_loop"
    /\ IF PostLoopGoesOn
       THEN /\ attempts' = Append(attempts, unique_post_urls[i + 1])
            /\ pc' = "details"
            /\ UNCHANGED <<sessions, files, exit_code>>
       ELSE /\ sessions' = 0
            /\ IF dataset # <<>>
               THEN /\ OpenFile("gab_data")
                    /\ pc' = "saving"
                    /\ UNCHANGED exit_code
               ELSE /\ Exit("0")
                    /\ UNCHANGED files
            /\ UNCHANGED attempts
    /\ UNCHANGED <<configVars, chanVars, gabxVars, intVars, faultVars, persists, listVars,
                   i, dataset, skipped, last_result, pending>>
    /\ UNCHANGED sideVars

\* get_post_details returns post_data or None, the tab is closed, and the
\* result is appended when it is truthy
GabxDetailsReturn ==
    /\ script = "gabx" /\ pc = "details"
    /\ \E data \in {Record(unique_post_urls[i + 1]), NoData} : TakeResult(data)
    /\ i' = i + 1
    /\ pc' = "post_loop"
    /\ UNCHANGED <<configVars, chanVars, gabxVars, faultVars, outVars, listVars,
                   sessions, exit_code, attempts, skipped, pending>>
    /\ UNCHANGED sideVars

\* driver.close() or switch_to.window raises after get_post_details returned
GabxCloseFault ==
    /\ script = "gabx" /\ pc = "details"
    /\ NoteFault
    /\ Exit("Exception")
    /\ UNCHANGED <<configVars, chanVars, gabxVars, intVars, outVars, listVars,
                   i, dataset, sessions, attempts, skipped, last_result, pending>>
    /\ UNCHANGED sideVars

\* json.dump(dataset, f, indent=4, ensure_ascii=False)
GabxDump ==
    /\ script = "gabx" /\ pc = "saving"
    /\ DumpFile("gab_data", dataset)
    /\ Exit("0")
    /\ UNCHANGED <<configVars, chanVars, gabxVars, intVars, faultVars, listVars,
                   i, dataset, sessions, attempts, skipped, last_result, pending>>
    /\ UNCHANGED sideVars

\* KeyboardInterrupt: main has no handler, the process ends with a traceback
GabxInterrupt ==
    /\ script = "gabx" /\ pc # "exited"
    /\ NoteInterrupt
    /\ Exit("KeyboardInterrupt")
    /\ UNCHANGED <<configVars, chanVars, gabxVars, faultVars, outVars, listVars,
                   i, dataset, sessions, attempts, skipped, last_result, pending>>
    /\ UNCHANGED sideVars

GabxNext ==
    \/ GabxStart
    \/ GabxSessionFault
    \/ GabxExploreTimeout
    \/ GabxExploreReady
    \/ GabxCollectUrl
    \/ GabxCollectStale
    \/ GabxCollectError
    \/ GabxCollectEnd
    \/ GabxPostLoop
    \/ GabxDetailsReturn
    \/ GabxCloseFault
    \/ GabxDump
    \/ GabxInterrupt

\* ===================================================================
\* gabr: src/gab/gab_past_post_rescraper.py
\* ===================================================================
UrlLoopGoesOn == i < Len(gab_urls)

\* webdriver.Chrome(service=service, options=chrome_options), before the try
GabrStart ==
    /\ script = "gabr" /\ pc = "start"
    /\ sessions' = sessions + 1
    /\ pc' = "login"
    /\ UNCHANGED <<configVars, chanVars, gabxVars, intVars, faultVars, outVars, listVars,
                   i, dataset, exit_code, attempts, skipped, last_result, pending>>
    /\ UNCHANGED sideVars

\* the creation of the driver raises before the try: the process ends
GabrDriverFault ==
    /\ script = "gabr" /\ pc = "start"
    /\ NoteFault
    /\ Exit("Exception")
    /\ UNCHANGED <<configVars, chanVars, gabxVars, intVars, outVars, listVars,
                   i, dataset, sessions, attempts, skipped, last_result, pending>>
    /\ UNCHANGED sideVars

\* the sign-in page, json.load(f) and current_window_handle
GabrLogin ==
    /\ script = "gabr" /\ pc = "login"
    /\ i' = 0
    /\ pc' = "url_loop"
    /\ UNCHANGED <<configVars, chanVars, gabxVars, intVars, faultVars, outVars, listVars,
                   dataset, sessions, exit_code, attempts, skipped, last_result, pending>>
    /\ UNCHANGED sideVars

\* top of "for url in gab_urls": a tab is opened and get_post_details is
\* called; or the loop ends: driver.quit() and, if dataset, open(output_filename, 'w')
GabrUrlLoop ==
    /\ script = "gabr" /\ pc = "url_loop"
    /\ IF UrlLoopGoesOn
       THEN /\ attempts' = Append(attempts, gab_urls[i + 1])
            /\ pc' = "details"
            /\ UNCHANGED <<sessions, files>>
       ELSE /\ sessions' = 0
            /\ IF dataset # <<>>
               THEN /\ OpenFile("gab_data_from_list")
                    /\ pc' = "saving_completed"
               ELSE /\ pc' = "try_end"
                    /\ UNCHANGED files
            /\ UNCHANGED attempts
    /\ UNCHANGED <<configVars, chanVars, gabxVars, intVars, faultVars, persists, listVars,
                   i, dataset, exit_code, skipped, last_result, pending>>
    /\ UNCHANGED sideVars

\* except TimeoutException: no new window appeared; switch back and continue
GabrTabTimeout ==
    /\ script = "gabr" /\ pc = "url_loop"
    /\ UrlLoopGoesOn
    /\ skipped' = Append(skipped, gab_urls[i + 1])
    /\ i' = i + 1
    /\ UNCHANGED <<configVars, chanVars, gabxVars, intVars, faultVars, outVars, listVars, pc,
                   dataset, sessions, exit_code, attempts, last_result, pending>>
    /\ UNCHANGED sideVars

\* get_post_details returns post_data or None, the tab is closed, and the
\* result is appended when it is truthy
GabrDetailsReturn ==
    /\ script = "gabr" /\ pc = "details"
    /\ \E data \in {Record(gab_urls[i + 1]), NoData} : TakeResult(data)
    /\ i' = i + 1
    /\ pc' = "url_loop"
    /\ UNCHANGED <<configVars, chanVars, gabxVars, faultVars, outVars, listVars,
                   sessions, exit_code, attempts, skipped, pending>>
    /\ UNCHANGED sideVars

\* json.dump of the completion file; the try block goes on with a print
GabrDumpCompleted ==
    /\ script = "gabr" /\ pc = "saving_completed"
    /\ DumpFile("gab_data_from_list", dataset)
    /\ pc' = "try_end"
    /\ UNCHANGED <<configVars, chanVars, gabxVars, intVars, faultVars, listVars,
                   i, dataset, sessions, exit_code, attempts, skipped, last_result, pending>>
    /\ UNCHANGED sideVars

\* the try block ends, the finally block quits the driver, main returns
GabrTryEnd ==
    /\ script = "gabr" /\ pc = "try_end"
    /\ sessions' = 0
    /\ Exit("0")
    /\ UNCHANGED <<configVars, chanVars, gabxVars, intVars, faultVars, outVars, listVars,
                   i, dataset, attempts, skipped, last_result, pending>>
    /\ UNCHANGED sideVars

\* an exception inside the try (a driver call raises, the URL file cannot be
\* read, get_post_details raises outside its own try blocks):
\* "except Exception" quits the driver and opens the error dump
GabrFaultInTry ==
    /\ script = "gabr"
    /\ pc \in {"login", "url_loop", "details"}
    /\ NoteFault
    /\ sessions' = 0
    /\ OpenFile("gab_data_error_dump")
    /\ pc' = "saving_error"
    /\ UNCHANGED <<configVars, chanVars, gabxVars, intVars, persists, listVars,
                   i, dataset, exit_code, attempts, skipped, last_result, pending>>
    /\ UNCHANGED sideVars

\* json.dump of the error dump, sys.exit(1)
GabrDumpError ==
    /\ script = "gabr" /\ pc = "saving_error"
    /\ DumpFile("gab_data_error_dump", dataset)
    /\ Exit("1")
    /\ UNCHANGED <<configVars, chanVars, gabxVars, intVars, faultVars, listVars,
                   i, dataset, sessions, attempts, skipped, last_result, pending>>
    /\ UNCHANGED sideVars

\* KeyboardInterrupt inside the try: "except KeyboardInterrupt" quits the
\* driver and opens the interrupt dump
GabrInterruptInTry ==
    /\ script = "gabr"
    /\ pc \in {"login", "url_loop", "details", "saving_completed", "try_end"}
    /\ NoteInterrupt
    /\ sessions' = 0
    /\ OpenFile("gab_data_interrupt_dump")
    /\ pc' = "saving_interrupt"
    /\ UNCHANGED <<configVars, chanVars, gabxVars, faultVars, persists, listVars,
                   i, dataset, exit_code, attempts, skipped, last_result, pending>>
    /\ UNCHANGED sideVars

\* json.dump of the interrupt dump, sys.exit(0)
GabrDumpInterrupt ==
    /\ script = "gabr" /\ pc = "saving_interrupt"
    /\ DumpFile("gab_data_interrupt_dump", dataset)
    /\ Exit("0")
    /\ UNCHANGED <<configVars, chanVars, gabxVars, intVars, faultVars, listVars,
                   i, dataset, sessions, attempts, skipped, last_result, pending>>
    /\ UNCHANGED sideVars

\* KeyboardInterrupt before the try or inside one of the two handlers: the
\* process ends with a traceback
GabrInterruptDies ==
    /\ script = "gabr" /\ pc \in {"start", "saving_interrupt", "saving_error"}
    /\ NoteInterrupt
    /\ Exit("KeyboardInterrupt")
    /\ UNCHANGED <<configVars, chanVars, gabxVars, faultVars, outVars, listVars,
                   i, dataset, sessions, attempts, skipped, last_result, pending>>
    /\ UNCHANGED sideVars

GabrNext ==
    \/ GabrStart
    \/ GabrDriverFault
    \/ GabrLogin
    \/ GabrUrlLoop
    \/ GabrTabTimeout
    \/ GabrDetailsReturn
    \/ GabrDumpCompleted
    \/ GabrTryEnd
    \/ GabrFaultInTry
    \/ GabrDumpError
    \/ GabrInterruptInTry
    \/ GabrDumpInterrupt
    \/ GabrInterruptDies

Next == ChanNext \/ GabxNext \/ GabrNext

Spec == Init /\ [][Next]_vars

TypeOK ==
    /\ pc \in {"start", "page_loop", "listing", "thread_loop", "extract", "field", "tail",
               "finally", "saving", "exited", "explore", "collect", "post_loop", "details",
               "login", "url_loop", "saving_completed", "saving_interrupt", "saving_error",
               "try_end"}
    /\ sessions \in 0..1
    /\ exit_code \in {"none", "0", "1", "KeyboardInterrupt", "Exception"}
    /\ (pc = "exited") = (exit_code # "none")

\* ===================================================================
\* Field normalizers (src/gab/gab_past_post_rescraper.py, src/gab_scraper_14.py)
\* ===================================================================
\* no crawl runs
CrawlIdle ==
    /\ script = "none"
    /\ target = 1
    /\ archive = NoArchive
    /\ gab_urls = <<>>
    /\ InitRun

\* A text is a sequence of characters.  An integer result is the sequence
\* of its decimal digits, as Python prints it: 10^12 does not fit a machine
\* word of the model checker, and Python integers have no width.
Digits == {"1", "2", "4"}

Letters == {"K", "k", "M", "T", "t"}

Chars == Digits \cup Letters \cup {",", ".", " "}

Texts == SeqsUpTo(Chars, MaxTextLen)

Zero == <<"0">>

\* str.replace(ch, '')
Remove(s, ch) == SelectSeq(s, LAMBDA c : c # ch)

RECURSIVE LStrip(_)
LStrip(s) == IF s # <<>> /\ Head(s) = " " THEN LStrip(Tail(s)) ELSE s

RECURSIVE RStrip(_)
RStrip(s) == IF s # <<>> /\ s[Len(s)] = " " THEN RStrip(SubSeq(s, 1, Len(s) - 1)) ELSE s

\* str.strip()
Strip(s) == RStrip(LStrip(s))

\* str.upper(), character by character
UpperChar(c) == CASE c = "k" -> "K" [] c = "t" -> "T" [] OTHER -> c

Upper(s) == [k \in 1..Len(s) |-> UpperChar(s[k])]

\* position of the first character of class C at or after p, Len(s) + 1 if none
RECURSIVE Find(_, _, _)
Find(s, p, C) == IF p <= Len(s) /\ s[p] \notin C THEN Find(s, p + 1, C) ELSE p

\* end (exclusive) of the longest run of characters of class C that starts at p
RECURSIVE SpanWhile(_, _, _)
SpanWhile(s, p, C) == IF p <= Len(s) /\ s[p] \in C THEN SpanWhile(s, p + 1, C) ELSE p

\* the character class [KMBTkmb] of the pattern: it has no lower-case t
SuffixClass == {"K", "M", "B", "T", "k", "m", "b"}

\* re.search(r'(\d[\d,.]*\s*[KMBTkmb]?)', text).group(1); <<>> when there is no match
count_match(text) ==
    LET a == Find(text, 1, Digits)
        b == SpanWhile(text, a + 1, Digits \cup {",", "."})
        c == SpanWhile(text, b, {" "})
        d == IF c <= Len(text) /\ text[c] \in SuffixClass THEN c + 1 ELSE c
    IN IF a > Len(text) THEN <<>> ELSE SubSeq(text, a, d - 1)

\* float(s) raises ValueError unless s, stripped, is digits with at most one point
FloatOk(s) ==
    LET t == Strip(s)
    IN /\ t # <<>>
       /\ \A k \in 1..Len(t) : t[k] \in Digits \cup {"."}
       /\ Cardinality({k \in 1..Len(t) : t[k] = "."}) <= 1
       /\ \E k \in 1..Len(t) : t[k] \in Digits

IntPart(s) == LET t == Strip(s) IN SubSeq(t, 1, Find(t, 1, {"."}) - 1)

FracPart(s) == LET t == Strip(s) IN SubSeq(t, Find(t, 1, {"."}) + 1, Len(t))

Zeros(n) == [k \in 1..n |-> "0"]

RECURSIVE StripZeros(_)
StripZeros(ds) == IF Len(ds) > 1 /\ Head(ds) = "0" THEN StripZeros(Tail(ds)) ELSE ds

\* the digits of floor(s * 10^e), s a decimal numeral
ExactScaled(s, e) ==
    LET f == FracPart(s)
        shifted == IF Len(f) >= e THEN SubSeq(f, 1, e) ELSE f \o Zeros(e - Len(f))
    IN StripZeros(<<"0">> \o IntPart(s) \o shifted)

DigitOrder == <<"0", "1", "2", "3", "4", "5", "6", "7", "8", "9">>

DigitValue(c) == CHOOSE v \in 0..9 : DigitOrder[v + 1] = c

\* the digits of n - 1, n > 0
RECURSIVE Decrement(_)
Decrement(ds) ==
    LET front == SubSeq(ds, 1, Len(ds) - 1)
        last == ds[Len(ds)]
    IN IF last = "0" THEN Decrement(front) \o <<"9">>
       ELSE front \o <<DigitOrder[DigitValue(last)]>>

\* float(s) * 10^e is computed in binary floating point (IEEE-754 double):
\* for these numerals of at most four characters the product is below the
\* exact value, and int() truncates it to the integer before.
FloatProductShort ==
    {<<<<"4", ".", "1">>, 6>>, <<<<"4", ".", "1">>, 12>>,
     <<<<"2", ".", "1", "1">>, 12>>,
     <<<<"4", ".", "1", "4">>, 6>>, <<<<"4", ".", "1", "4">>, 12>>,
     <<<<"4", ".", "2", "2">>, 12>>}

\* int(float(s) * 10**e)
IntOfFloatTimes(s, e) ==
    IF <<Strip(s), e>> \in FloatProductShort
    THEN StripZeros(Decrement(ExactScaled(s, e)))
    ELSE ExactScaled(s, e)

\* one branch of the suffix chain: int(float(num_str.replace(L, '')) * 10**e)
ScaleBranch(num_str, L, e) ==
    IF FloatOk(Remove(num_str, L)) THEN IntOfFloatTimes(Remove(num_str, L), e) ELSE Zero

extract_count_from_string(text) ==
    IF text = None \/ text = <<>> THEN Zero
    ELSE IF count_match(text) = <<>> THEN Zero
    ELSE LET num_str == Strip(Remove(count_match(text), ","))
             up == Range(Upper(num_str))
         IN CASE "K" \in up -> ScaleBranch(num_str, "K", 3)
              [] "K" \notin up /\ "M" \in up -> ScaleBranch(num_str, "M", 6)
              [] {"K", "M"} \cap up = {} /\ "B" \in up -> ScaleBranch(num_str, "B", 9)
              [] {"K", "M", "B"} \cap up = {} /\ "T" \in up -> ScaleBranch(num_str, "T", 12)
              [] OTHER -> IF FloatOk(num_str) THEN IntOfFloatTimes(num_str, 0) ELSE Zero

\* ------------------------------------------------- parse_gab_datetime
\* A timestamp text is a sequence of symbols: the fields Gab prints, " "
\* for white space, "(" and ")".
Weekdays == {"Mon", "Tue"}

Months == {"Feb", "Jul"}

MonthNumber == [b \in Months |-> IF b = "Feb" THEN "02" ELSE "07"]

DaysIn == [b \in Months |-> IF b = "Feb" THEN {"07"} ELSE {"07", "30"}]

DayTexts == {"07", "30"}

TimeTexts == {"07:59:42", "25:00:00"}

ValidTimes == {"07:59:42"}

\* the texts %z accepts, and the offset each denotes, in minutes east of UTC
Offsets == {"-0700", "+0530", "Z"}

OffsetMinutes == [z \in Offsets |->
                    CASE z = "-0700" -> 0 - 420 [] z = "+0530" -> 330 [] OTHER -> 0]

\* an offset text that %z reads and datetime.timezone rejects; no offset at all
OffsetTexts == Offsets \cup {"+2500", ""}

\* "Mon Jul 07 2025 07:59:42 GMT-0700"
GabDate(a, b, d, Y, t, g, z) ==
    <<a, " ", b, " ", d, " ", Y, " ", t, " ", g>> \o (IF z = "" THEN <<>> ELSE <<z>>)

\* what the datetime attribute holds when the site prints ISO-8601 itself
IsoAttribute == <<"2025-07-07T07:59:42.000Z">>

DateTexts ==
    {GabDate(x[1], x[2], x[3], "2025", x[4], x[5], x[6]) :
        x \in Weekdays \X Months \X DayTexts \X TimeTexts
              \X {"GMT", "UTC"} \X OffsetTexts}
        \cup {IsoAttribute}

RECURSIVE Repeat(_, _)
Repeat(s, n) == IF n = 0 THEN <<>> ELSE s \o Repeat(s, n - 1)

\* " (PDT)" up to MaxAnnotations times, " (Pacific Time)"
ClosedAnnotations ==
    {Repeat(<<" ", "(", "PDT", ")">>, n) : n \in 1..MaxAnnotations}
        \cup {<<" ", "(", "Pacific", " ", "Time", ")">>}

\* " ()", " (PDT", " (a (b) c)"
OpenAnnotations ==
    {<<" ", "(", ")">>, <<" ", "(", "PDT">>,
     <<" ", "(", "a", " ", "(", "b", ")", " ", "c", ")">>}

\* the annotation follows the text, or its first field
Annotated(s, ann, where) ==
    IF where = "end" \/ s = <<>> THEN s \o ann ELSE <<Head(s)>> \o ann \o Tail(s)

DtStrings ==
    DateTexts
        \cup {Annotated(x[1], x[2], x[3]) :
                x \in DateTexts \X (ClosedAnnotations \cup OpenAnnotations) \X {"end", "first"}}
        \cup {<<>>, None} \cup ClosedAnnotations

\* the text is kept as it is
StripAnnotations_Identity(s) == s

\* re.sub(r'\s*\([^)]+\)', '', s): leftmost matches, left to right
RECURSIVE StripAnnotations(_)
StripAnnotations(s) ==
    IF s = <<>> THEN <<>>
    ELSE LET open == SpanWhile(s, 1, {" "})
             close == Find(s, open + 1, {")"})
         IN IF open <= Len(s) /\ s[open] = "(" /\ close <= Len(s) /\ close > open + 1
            THEN StripAnnotations(SubSeq(s, close + 1, Len(s)))
            ELSE <<Head(s)>> \o StripAnnotations(Tail(s))

\* white space in a strptime format stands for \s+
RECURSIVE Squeeze(_)
Squeeze(s) ==
    IF Len(s) < 2 THEN s
    ELSE IF s[1] = " " /\ s[2] = " " THEN Squeeze(Tail(s))
         ELSE <<Head(s)>> \o Squeeze(Tail(s))

ValueError == <<"ValueError">>

\* datetime.strptime(s, "%a %b %d %Y %H:%M:%S GMT%z"): the fields, or ValueError
strptime(s) ==
    LET t == Squeeze(s)
    IN IF /\ Len(t) = 12
          /\ \A k \in {2, 4, 6, 8, 10} : t[k] = " "
          /\ t[1] \in Weekdays
          /\ t[3] \in Months
          /\ t[5] \in DaysIn[t[3]]
          /\ t[7] = "2025"
          /\ t[9] \in ValidTimes
          /\ t[11] = "GMT"
          /\ t[12] \in Offsets
       THEN <<t[7], t[3], t[5], t[9], t[12]>>
       ELSE ValueError

\* the offset as isoformat() prints it
IsoOffset == [z \in Offsets |->
                CASE z = "-0700" -> "-07:00" [] z = "+0530" -> "+05:30" [] OTHER -> "+00:00"]

\* the utcoffset datetime.fromisoformat reads back, in seconds
IsoOffsetSeconds(off) ==
    CASE off = "-07:00" -> 0 - 25200 [] off = "+05:30" -> 19800 [] off = "+00:00" -> 0

\* datetime.isoformat(): "2025-07-07T07:59:42-07:00"
isoformat(dt) == <<dt[1], "-", MonthNumber[dt[2]], "-", dt[3], "T", dt[4], IsoOffset[dt[5]]>>

parse_gab_datetime(s) ==
    IF s = None \/ s = <<>> THEN None
    ELSE LET clean_dt_string == Strip(StripAnnotations(s))
         IN IF strptime(clean_dt_string) = ValueError THEN None
            ELSE isoformat(strptime(clean_dt_string))

\* ------------------------------------------------ calls of the normalizers
NormInit ==
    /\ CrawlIdle
    /\ SideIdleExcept("norm")
    /\ count = None
    /\ timestamp_iso = None
    /\ \/ /\ norm_pc = "count"
          /\ text_to_parse \in Texts \cup {None}
          /\ dt_string = None
       \/ /\ norm_pc = "datetime"
          /\ dt_string \in DtStrings
          /\ text_to_parse = None

CallExtractCount ==
    /\ norm_pc = "count"
    /\ count' = extract_count_from_string(text_to_parse)
    /\ norm_pc' = "counted"
    /\ UNCHANGED <<text_to_parse, dt_string, timestamp_iso>>
    /\ UNCHANGED crawlVars
    /\ FrameExcept("norm")

CallParseGabDatetime ==
    /\ norm_pc = "datetime"
    /\ timestamp_iso' = parse_gab_datetime(dt_string)
    /\ norm_pc' = "parsed"
    /\ UNCHANGED <<text_to_parse, count, dt_string>>
    /\ UNCHANGED crawlVars
    /\ FrameExcept("norm")

NormNext == CallExtractCount \/ CallParseGabDatetime

NormSpec == NormInit /\ [][NormNext]_vars

\* ===================================================================
\* Field lookup: WebDriverWait(...).until(any_of_conditions(...))
\* ===================================================================
\* condition k finds its element at poll p (EC.presence_of_element_located
\* raises NoSuchElementException when it does not)
Present(k, p) == appears[k] # 0 /\ appears[k] <= p

\* for condition in self.conditions: the condition consulted in position j
Order_Reversed(j) == NumStrategies + 1 - j

Order(j) == j

\* the position consulted after the condition in position j has raised
AfterRaise_EndPoll(j) == NumStrategies + 1

\* except Exception: pass
AfterRaise(j) == j + 1

\* post_data["text"] = "No primary text content found (timed out)."
Sentinel == "No primary text content found (timed out)."

ResolverInit ==
    /\ CrawlIdle
    /\ SideIdleExcept("resolver")
    /\ res_pc = "conditions"
    /\ appears \in [1..NumStrategies -> 0..MaxPolls]
    /\ wait_polls \in 1..MaxPolls
    /\ poll = 1
    /\ cidx = 1
    /\ invoked = <<>>
    /\ located = 0
    /\ field = "unset"

\* result = condition(driver); if result: return result -- and until() returns it
ConditionLocates ==
    /\ res_pc = "conditions"
    /\ cidx <= NumStrategies
    /\ Present(Order(cidx), poll)
    /\ invoked' = Append(invoked, <<poll, Order(cidx)>>)
    /\ located' = Order(cidx)
    /\ field' = "element"
    /\ res_pc' = "returned"
    /\ UNCHANGED <<appears, wait_polls, poll, cidx>>
    /\ UNCHANGED crawlVars
    /\ FrameExcept("resolver")

\* the condition raises; the exception is swallowed
ConditionRaises ==
    /\ res_pc = "conditions"
    /\ cidx <= NumStrategies
    /\ ~Present(Order(cidx), poll)
    /\ invoked' = Append(invoked, <<poll, Order(cidx)>>)
    /\ cidx' = AfterRaise(cidx)
    /\ UNCHANGED <<res_pc, appears, wait_polls, poll, located, field>>
    /\ UNCHANGED crawlVars
    /\ FrameExcept("resolver")

\* return False; until() sleeps and calls the conditions again
PollAgain ==
    /\ res_pc = "conditions"
    /\ cidx > NumStrategies
    /\ poll < wait_polls
    /\ poll' = poll + 1
    /\ cidx' = 1
    /\ UNCHANGED <<res_pc, appears, wait_polls, invoked, located, field>>
    /\ UNCHANGED crawlVars
    /\ FrameExcept("resolver")

\* return False; the wait is over: until() raises TimeoutException, which
\* the caller turns into the sentinel of the field
WaitTimesOut ==
    /\ res_pc = "conditions"
    /\ cidx > NumStrategies
    /\ poll >= wait_polls
    /\ res_pc' = "timeout"
    /\ field' = Sentinel
    /\ UNCHANGED <<appears, wait_polls, poll, cidx, invoked, located>>
    /\ UNCHANGED crawlVars
    /\ FrameExcept("resolver")

ResolverNext == ConditionLocates \/ ConditionRaises \/ PollAgain \/ WaitTimesOut

ResolverSpec == ResolverInit /\ [][ResolverNext]_vars

\* ===================================================================
\* Record extractors: get_post_details (both Gab scripts), scrape_pol_thread
\* ===================================================================
\* An image URL is a sequence of chunks: where it is hosted, a name, how it ends.
GabMedia == "https://m3.gab.com/media_attachments/"

GabSrcs == {<<GabMedia, "1", ".jpg">>, <<GabMedia, "2", ".png">>,
            <<"https://gab.com/avatars/", "1", ".jpg">>}

ChanMedia == "https://i.4pcdn.org/pol/"

ChanSrcs == {<<ChanMedia, "1", "s.jpg">>, <<ChanMedia, "1", ".jpg">>,
             <<ChanMedia, "2", "s.jpg">>}

Srcs(x) == IF x = "chan" THEN ChanSrcs ELSE GabSrcs

\* the images of one reply element
ReplySrcLists(x) ==
    LET a == <<IF x = "chan" THEN ChanMedia ELSE GabMedia, "1", ".jpg">>
        b == IF x = "chan" THEN <<ChanMedia, "1", "s.jpg">> ELSE <<GabMedia, "2", ".png">>
    IN {<<>>, <<a, a>>, <<a, b>>}

TimeoutException == <<"TimeoutException">>

\* what the timestamp element holds, when there is one
RawTimestamps ==
    {Annotated(GabDate("Mon", "Jul", "07", "2025", "07:59:42", "GMT", "-0700"),
               <<" ", "(", "PDT", ")">>, "end"),
     GabDate("Tue", "Jul", "30", "2025", "07:59:42", "GMT", "Z"),
     GabDate("Tue", "Feb", "07", "2025", "07:59:42", "GMT", "+0530"),
     IsoAttribute}

\* the lookups made one by one inside the post element
Fields == {"author", "text", "images", "counts"}

\* a lookup finds what it looks for, finds nothing (no element, no match,
\* a wait that times out), or the rendering session raises (a stale element)
LookupOutcomes == {"found", "nothing", "raises"}

AllFound == [f \in Fields |-> "found"]

\* A div the reply XPaths select, or a reply article of a thread:
\*   srcs    the src attributes of its images
\*   comment its data-comment attribute (its id attribute on 4plebs), 0: none
\*   cls     it also carries the classes the second XPath asks for
\*   stale   "no"; "early": stale when the candidates are gone through;
\*           "late": stale when its reply is built
\*   lookup  the outcome of the lookup of its text
ReplyElem(srcs, comment, cls, stale, lookup) ==
    [srcs |-> srcs, comment |-> comment, cls |-> cls, stale |-> stale, lookup |-> lookup]

\* a page of an old post on which every lookup finds its element
BasePage ==
    [container |-> TRUE,
     article_id |-> 1,
     srcs |-> <<>>,
     timestamp |-> GabDate("Tue", "Feb", "07", "2025", "07:59:42", "GMT", "+0530"),
     faults |-> AllFound,
     replies |-> <<>>]

\* pages that differ in their images, their timestamp and their replies' images
MediaPages(x) ==
    {[BasePage EXCEPT !.srcs = s, !.timestamp = t,
                      !.replies = [k \in 1..Len(r) |-> ReplyElem(r[k], k, FALSE, "no", "found")]] :
        s \in SeqsUpTo(Srcs(x), MaxImgs),
        t \in RawTimestamps \cup {TimeoutException},
        r \in SeqsUpTo(ReplySrcLists(x), MaxReplies)}

\* pages that differ in the id attribute of the thread article
IdentPages ==
    {[BasePage EXCEPT !.article_id = a,
                      !.replies = <<ReplyElem(<<>>, 1, TRUE, "no", "found")>>] : a \in {1, 2}}

\* pages that differ in what the lookups of the fields do
FieldPages(x) ==
    {[BasePage EXCEPT !.faults = f,
                      !.srcs = <<CHOOSE s \in Srcs(x) : s[2] = "1" /\ s[3] = ".jpg" /\ s[1] \in {GabMedia, ChanMedia}>>,
                      !.replies = <<ReplyElem(<<>>, 1, TRUE, "no", l)>>] :
        f \in [Fields -> LookupOutcomes], l \in LookupOutcomes}

\* pages that differ in the divs the reply XPaths select
CandidatePages ==
    {[BasePage EXCEPT !.replies = r] :
        r \in SeqsUpTo({ReplyElem(<<>>, c, cls, "no", "found") : c \in 0..2, cls \in BOOLEAN}
                       \cup {ReplyElem(<<>>, 1, TRUE, v[1], v[2]) :
                                v \in {<<"no", "nothing">>, <<"early", "found">>,
                                       <<"late", "found">>}},
                       3)}

\* the rendered page
Pages(x) == MediaPages(x) \cup IdentPages \cup FieldPages(x) \cup CandidatePages \cup {NoPage}

\* list(set(...)): the elements once each, in an order the hash decides
Orderings(S) == {s \in [1..Cardinality(S) -> S] : Range(s) = S}

\* post_data["image_urls"] = list(set(image_urls))
ImageList(urls) == Orderings(Range(urls))

\* src="(https?://m3\.gab\.com/media_attachments/[^"]+\.(?:jpg|jpeg|png|gif|webp)[^"]*)"
img_src_pattern(src) ==
    /\ src[1] = GabMedia
    /\ src[Len(src)] \in {".jpg", ".jpeg", ".png", ".gif", ".webp"}

\* for match in img_src_pattern.finditer(html): image_urls.append(match.group(1))
MatchedSrcs(srcs) == SelectSeq(srcs, img_src_pattern)

\* url.replace("s.jpg", ".jpg") if url.endswith("s.jpg") else url
fix_image_url(url) ==
    IF url[Len(url)] = "s.jpg"
    THEN [k \in 1..Len(url) |-> IF url[k] = "s.jpg" THEN ".jpg" ELSE url[k]]
    ELSE url

fix_image_urls(urls) == [k \in 1..Len(urls) |-> fix_image_url(urls[k])]

\* post_url.split('/')[-1].split('?')[0].split('#')[0]
UrlId(url) == url[Len(url)]

\* re.search(r'gab.com/([^/]+)/posts/', post_url): "@" + match.group(1)
AuthorOfUrl(url) ==
    IF url[1] = "https://gab.com/u/posts" THEN <<"@", "u">>
    ELSE <<"N/A (Author not found in URL pattern)">>

\* what the text element of the post, of a reply holds
PostText == <<"post text">>
ReplyText == <<"reply text">>
PosterHash == <<"poster hash">>

\* the text of a Gab post, by what the lookup of its element does
GabText(outcome) ==
    CASE outcome = "found" -> PostText
      [] outcome = "nothing" -> <<"No primary text content found (timed out).">>
      [] outcome = "raises" -> <<"Error retrieving text.">>

\* the text of a Gab reply, by what the lookup of its element does
GabReplyText(outcome) ==
    CASE outcome = "found" -> ReplyText
      [] outcome = "nothing" -> <<"No text found (Timeout/Not Found).">>
      [] outcome = "raises" -> <<"Error retrieving text.">>

\* try: ... .text.strip() except: None
ChanText(outcome, text) == IF outcome = "found" THEN text ELSE None

\* the count the page source shows next to "Reposts"
RepostsText == <<"1", "2">>

\* extract_count_from_string(match.group(1)) if match else 0
CountField(outcome) == IF outcome = "found" THEN extract_count_from_string(RepostsText) ELSE Zero

\* the image list of a Gab post, for one outcome o of list(set(...))
GabImages(outcome, o) == IF outcome = "found" THEN o ELSE <<>>

PostData(id, url, author, text, imgs, ts, iso, reposts, reps) ==
    [post_id |-> id, post_url |-> url, author |-> author, text |-> text,
     image_urls |-> imgs, timestamp |-> ts, timestamp_iso |-> iso,
     reposts_count |-> reposts, replies |-> reps]

\* all_reply_elements: what the first XPath selects, then what the second selects
all_reply_elements(elems) == elems \o SelectSeq(elems, LAMBDA e : e.cls)

\* every candidate with a data-comment is kept, seen before or not
Keeps_NoSeenCheck(e, seen) == e.comment # 0

\* if elem_identifier and elem_identifier not in seen_identifiers
Keeps(e, seen) == e.comment # 0 /\ e.comment \notin seen

\* unique_reply_elements; a candidate that is stale is skipped
RECURSIVE unique_reply_elements(_, _)
unique_reply_elements(elems, seen_identifiers) ==
    IF elems = <<>> THEN <<>>
    ELSE LET e == Head(elems) IN
         IF e.stale = "early" THEN unique_reply_elements(Tail(elems), seen_identifiers)
         ELSE IF Keeps(e, seen_identifiers)
              THEN <<e>> \o unique_reply_elements(Tail(elems), seen_identifiers \cup {e.comment})
              ELSE unique_reply_elements(Tail(elems), seen_identifiers)

\* reply_elem.get_attribute('data-comment') or f"reply_{i}_{datetime.now().timestamp()}"
ReplyId(e, idx, now) ==
    IF e.comment # 0 THEN [from |-> "data-comment", value |-> e.comment]
    ELSE [from |-> "index and clock", value |-> <<idx, now>>]

\* the loop over unique_reply_elements from index idx on, for each outcome of
\* list(set(...)); a stale element ends the loop with the replies built so far
RECURSIVE ReplyLoop(_, _, _)
ReplyLoop(elems, idx, now) ==
    IF elems = <<>> THEN {<<>>}
    ELSE LET e == Head(elems) IN
         IF e.stale = "late" THEN {<<>>}
         ELSE {<<[reply_id |-> ReplyId(e, idx, now),
                  reply_text |-> GabReplyText(e.lookup),
                  image_urls |-> o]>> \o rest :
                 o \in ImageList(MatchedSrcs(e.srcs)),
                 rest \in ReplyLoop(Tail(elems), idx + 1, now)}

\* the replies of the rescraper
GabrReplies(elems, now) ==
    ReplyLoop(unique_reply_elements(all_reply_elements(elems), {}), 0, now)

\* the replies of the explore scraper carry no identifier and no image list
GabxReplies(elems) == [k \in 1..Len(elems) |-> [image_urls |-> <<>>]]

\* for ra in reply_articles: no lookup of the loop is guarded but the text and the time
ChanRepliesRaise(elems) == \E k \in 1..Len(elems) : elems[k].stale # "no"

ChanReplies(elems) ==
    [k \in 1..Len(elems) |->
        [reply_id |-> [from |-> "id attribute", value |-> elems[k].comment],
         reply_text |-> ChanText(elems[k].lookup, ReplyText),
         image_urls |-> fix_image_urls(elems[k].srcs)]]

DayOfYear(mm, dd) ==
    CASE mm = "02" /\ dd = "07" -> 38
      [] mm = "07" /\ dd = "07" -> 188
      [] mm = "07" /\ dd = "30" -> 211

\* datetime.fromisoformat(iso), in seconds (07:59:42 is 28782 s into the day)
fromisoformat(iso) == DayOfYear(iso[3], iso[5]) * 86400 + 28782 - IsoOffsetSeconds(iso[8])

\* (current_datetime_utc - post_datetime).days
AgeDays(iso, now) == (now - fromisoformat(iso)) \div 86400

\* a post whose timestamp does not parse is taken to be old enough
AgeFilterPasses_AssumeOld(iso, now, min_age) == iso = None \/ AgeDays(iso, now) >= min_age

\* if post_data["timestamp_iso"]: ... if age_difference.days < MIN_POST_AGE_DAYS: return None
\* else: return None
AgeFilterPasses(iso, now, min_age) == iso # None /\ AgeDays(iso, now) >= min_age

\* page_source = driver.page_source is inside the outer try only
SourceUnguarded(outcome) == outcome = "raises"

\* get_post_details of the rescraper, for one outcome of the two list(set(...))
get_post_details(url, pg, imgs, reps, now, min_age, min_replies) ==
    IF ~pg.container THEN NoData
    ELSE IF pg.timestamp = TimeoutException THEN NoData
    ELSE IF ~AgeFilterPasses(parse_gab_datetime(pg.timestamp), now, min_age) THEN NoData
    ELSE IF SourceUnguarded(pg.faults["counts"]) THEN NoData
    ELSE IF Len(reps) < min_replies THEN NoData
    ELSE PostData(UrlId(url), url, AuthorOfUrl(url), GabText(pg.faults["text"]),
                  GabImages(pg.faults["images"], imgs),
                  pg.timestamp, parse_gab_datetime(pg.timestamp),
                  CountField(pg.faults["counts"]), reps)

\* get_post_details of the explore scraper: no filter, the timestamp as found
get_post_details_explore(url, pg, imgs) ==
    IF ~pg.container THEN NoData
    ELSE IF SourceUnguarded(pg.faults["counts"]) THEN NoData
    ELSE PostData(UrlId(url), url, AuthorOfUrl(url), GabText(pg.faults["text"]),
                  GabImages(pg.faults["images"], imgs),
                  IF pg.timestamp = TimeoutException THEN <<"N/A (Timeout)">> ELSE pg.timestamp,
                  None, CountField(pg.faults["counts"]), GabxReplies(pg.replies))

\* scrape_pol_thread: {} when the thread article does not appear, and when a
\* statement outside the inner try blocks raises
scrape_pol_thread(url, pg) ==
    IF ~pg.container THEN NoData
    ELSE IF pg.faults["images"] = "raises" \/ ChanRepliesRaise(pg.replies) THEN NoData
    ELSE PostData(pg.article_id, url, ChanText(pg.faults["author"], PosterHash),
                  ChanText(pg.faults["text"], PostText),
                  IF pg.faults["images"] = "found" THEN fix_image_urls(pg.srcs) ELSE <<>>,
                  IF pg.timestamp = TimeoutException THEN None ELSE pg.timestamp,
                  IF pg.timestamp = TimeoutException THEN None ELSE pg.timestamp,
                  Zero, ChanReplies(pg.replies))

\* the crawl state a caller of the extractor does not touch
callerFrame == <<script, target, archive, gab_urls, pc, page_num, thread_urls_on_page, i,
                 current_link_elements, unique_post_urls, processed_urls, files,
                 sessions, exit_code, attempts, skipped, discovered, listings, empty_at,
                 fault, k_fault, persists, restarted, pending>>

\* values of MIN_POST_AGE_DAYS: as shipped, one day, as its comment says
MinAges == {0, 1, 14}

\* the clock: before the post of Jul 07, a day and a half after it
Nows == {188 * 86400, 189 * 86400 + 43200}

ExtractInit ==
    /\ CrawlIdle
    /\ SideIdleExcept("extract")
    /\ ext_pc = "call"
    /\ extractor \in {"gabr", "gabx", "chan"}
    /\ min_post_age_days \in IF extractor = "gabr" THEN MinAges ELSE {0}
    /\ min_replies_required \in IF extractor = "gabr" THEN 0..MaxReplies ELSE {0}
    /\ now_utc \in Nows
    /\ page = NoPage
    /\ post_data = NoData

\* post_data = get_post_details(url, driver)      (gab_past_post_rescraper.py)
CallRescraperDetails ==
    /\ ext_pc = "call"
    /\ extractor = "gabr"
    /\ \E pg \in Pages("gabr") :
         \E imgs \in ImageList(MatchedSrcs(pg.srcs)) : \E reps \in GabrReplies(pg.replies, now_utc) :
           /\ page' = pg
           /\ post_data' = get_post_details(GabUrl(1), pg, imgs, reps, now_utc,
                                            min_post_age_days, min_replies_required)
    /\ ext_pc' = "returned"
    /\ UNCHANGED <<extractor, min_post_age_days, min_replies_required, now_utc>>
    /\ UNCHANGED crawlVars
    /\ FrameExcept("extract")

\* post_data = get_post_details(url, driver)      (gab_scraper_14.py)
CallExploreDetails ==
    /\ ext_pc = "call"
    /\ extractor = "gabx"
    /\ \E pg \in Pages("gabx") : \E imgs \in ImageList(MatchedSrcs(pg.srcs)) :
           /\ page' = pg
           /\ post_data' = get_post_details_explore(GabUrl(1), pg, imgs)
    /\ ext_pc' = "returned"
    /\ UNCHANGED <<extractor, min_post_age_days, min_replies_required, now_utc>>
    /\ UNCHANGED crawlVars
    /\ FrameExcept("extract")

\* data = scrape_pol_thread(thread_url)
CallScrapePolThread ==
    /\ ext_pc = "call"
    /\ extractor = "chan"
    /\ \E pg \in Pages("chan") :
           /\ page' = pg
           /\ post_data' = scrape_pol_thread(ThreadUrl(1), pg)
    /\ ext_pc' = "returned"
    /\ UNCHANGED <<extractor, min_post_age_days, min_replies_required, now_utc>>
    /\ UNCHANGED crawlVars
    /\ FrameExcept("extract")

\* if post_data: dataset.append(post_data)
CallerTakes ==
    /\ ext_pc = "returned"
    /\ TakeResult(post_data)
    /\ ext_pc' = "taken"
    /\ UNCHANGED <<extractor, min_post_age_days, min_replies_required, now_utc, page, post_data>>
    /\ UNCHANGED callerFrame
    /\ FrameExcept("extract")

ExtractNext ==
    CallRescraperDetails \/ CallExploreDetails \/ CallScrapePolThread \/ CallerTakes

ExtractSpec == ExtractInit /\ [][ExtractNext]_vars

\* ===================================================================
\* OCR enrichment: src/4chan/ocr_extractor.py, src/gab/gab_ocr_extractor.py
\* ===================================================================
\* A JSON object is a record that has exactly the object's keys; a JSON
\* string among objects is wrapped, so that the two can be told apart.
Str(u) == [str |-> u]
IsStr(v) == DOMAIN v = {"str"}

\* obj.get(k, default)
Get(obj, k, default) == IF k \in DOMAIN obj THEN obj[k] ELSE default

\* obj[k] = v
SetKey(obj, k, v) == [x \in DOMAIN obj \cup {k} |-> IF x = k THEN v ELSE obj[x]]

OcrUrls == {"https://i/a.jpg", "https://i/b.png"}

StrSeq(urls) == [k \in 1..Len(urls) |-> Str(urls[k])]

\* a reply as the scrapers store it; the explore scraper stores no image_urls
ReplyRecord(id, urls) == [reply_id |-> id, image_urls |-> StrSeq(urls)]
ReplyWithoutImages(id) == [reply_id |-> id]

\* a record as the scrapers store it
PostRecord(id, urls, reps) == [post_url |-> id, image_urls |-> StrSeq(urls), replies |-> reps]

\* the dataset files the scripts are run on
OcrInputs ==
    { <<>>,
      << PostRecord(1, <<"https://i/a.jpg", "https://i/b.png">>, <<>>),
         PostRecord(2, <<"https://i/a.jpg">>, <<>>) >>,
      << PostRecord(1, <<"https://i/a.jpg">>,
                    << ReplyRecord(1, <<"https://i/b.png">>), ReplyWithoutImages(2) >>),
         PostRecord(2, <<"https://i/b.png">>, <<>>) >>,
      << PostRecord(1, <<>>,
                    << ReplyRecord(1, <<"https://i/a.jpg", "https://i/a.jpg">>) >>) >> }

\* pytesseract.image_to_string(img): some text, or nothing but whitespace
OcrTexts == { <<"h", "i", " ">>, <<" ">> }

\* what a download, a decode or a recognition raises, with its base classes
OcrFailures == {"HTTPError", "UnidentifiedImageError", "TesseractError"}

Bases(e) ==
    CASE e = "HTTPError" -> {"HTTPError", "RequestException", "IOError", "Exception"}
      [] e = "InvalidSchema" -> {"InvalidSchema", "RequestException", "IOError", "Exception"}
      [] e = "UnidentifiedImageError" -> {"UnidentifiedImageError", "IOError", "Exception"}
      [] e = "TesseractError" -> {"TesseractError", "RuntimeError", "Exception"}

Returns(text) == [ok |-> TRUE, text |-> text]
Raises(e) == [ok |-> FALSE, exc |-> e]

\* What the body of the try block can do with one element of image_urls.
\* requests.get of a JSON object finds no connection adapter for it.
Outcomes(arg) ==
    IF IsStr(arg)
    THEN {Returns(t) : t \in OcrTexts} \cup {Raises(e) : e \in OcrFailures}
    ELSE {Raises("InvalidSchema")}

ExceptClauses_RequestsOnly(s) == <<"SSLError", "RequestException">>

\* the except clauses around the try block
ExceptClauses(s) ==
    IF s = "chan"
    THEN <<"SSLError", "RequestException", "IOError", "Exception">>
    ELSE <<"Exception">>

Caught(s, e) == \E k \in 1..Len(ExceptClauses(s)) : ExceptClauses(s)[k] \in Bases(e)

\* f"[OCR Error] {str(e)}"
Marker(e) == <<"[OCR Error]", e>>

\* extract_image_text_from_url(url), given what the try block did
extract_image_text_from_url(url, out) == IF out.ok THEN out.text ELSE <<>>

\* ocr_from_url(url), given what the try block did
ocr_from_url(url, out) == IF out.ok THEN out.text ELSE Marker(out.exc)

Separator == <<"\n", "\n", "-", "-", "-", "\n", "\n">>

\* sep.join(texts)
RECURSIVE Join(_, _)
Join(sep, texts) ==
    IF texts = <<>> THEN <<>>
    ELSE IF Len(texts) = 1 THEN texts[1]
    ELSE texts[1] \o sep \o Join(sep, Tail(texts))

\* post.get("image_urls", [])
post_images == Get(ocr_data[pidx], "image_urls", <<>>)

\* post.get("replies", [])
post_replies == Get(ocr_data[pidx], "replies", <<>>)

\* reply.get("image_urls", [])
reply_images == Get(post_replies[ridx], "image_urls", <<>>)

\* the loop over data goes to its next element, or ends
NextPost ==
    /\ pidx' = pidx + 1
    /\ ridx' = 1
    /\ uidx' = 1
    /\ image_texts' = <<>>
    /\ ocr_pc' = IF pidx < Len(ocr_data) THEN "post" ELSE "dump"

OcrStart(d) ==
    /\ ocr_data = d
    /\ pidx = 1
    /\ ridx = 1
    /\ uidx = 1
    /\ image_texts = <<>>
    /\ fetch_log = <<>>
    /\ ocr_pc = IF d # <<>> THEN "post" ELSE "dump"

OcrInit ==
    /\ CrawlIdle
    /\ SideIdleExcept("ocr")
    /\ ocr_script \in {"chan", "gab"}
    /\ ocr_pass = 1
    /\ ocr_input \in OcrInputs
    /\ ocr_output = Absent
    /\ OcrStart(ocr_input)

\* one turn of the loop over the post's image urls
FetchPostImage ==
    /\ ocr_pc = "post"
    /\ uidx <= Len(post_images)
    /\ \E out \in Outcomes(post_images[uidx]) :
        LET url == post_images[uidx] IN
        /\ fetch_log' = Append(fetch_log, [arg |-> url, out |-> out])
        /\ IF out.ok \/ Caught(ocr_script, out.exc)
           THEN /\ image_texts' =
                      IF ocr_script = "chan"
                      THEN LET text == extract_image_text_from_url(url, out) IN
                           IF Strip(text) # <<>> THEN Append(image_texts, Strip(text))
                           ELSE image_texts
                      ELSE Append(image_texts,
                                  [url |-> url, ocr_text |-> ocr_from_url(url, out)])
                /\ uidx' = uidx + 1
                /\ UNCHANGED ocr_pc
           ELSE /\ ocr_pc' = "crashed"
                /\ UNCHANGED <<image_texts, uidx>>
    /\ UNCHANGED <<ocr_script, ocr_pass, ocr_input, ocr_data, pidx, ridx, ocr_output>>
    /\ UNCHANGED crawlVars
    /\ FrameExcept("ocr")

\* the loop over the post's image urls has ended
AttachPostTexts ==
    /\ ocr_pc = "post"
    /\ uidx > Len(post_images)
    /\ IF ocr_script = "chan"
       THEN /\ ocr_data' = [ocr_data EXCEPT
                               ![pidx] = SetKey(@, "ocr_text", Join(Separator, image_texts))]
            /\ NextPost
       ELSE /\ ocr_data' = [ocr_data EXCEPT ![pidx] = SetKey(@, "image_urls", image_texts)]
            /\ ocr_pc' = "reply"
            /\ ridx' = 1
            /\ uidx' = 1
            /\ image_texts' = <<>>
            /\ UNCHANGED pidx
    /\ UNCHANGED <<ocr_script, ocr_pass, ocr_input, fetch_log, ocr_output>>
    /\ UNCHANGED crawlVars
    /\ FrameExcept("ocr")

\* for reply in post.get("replies", []): reply["reply_ocr_text"] = []
StartReply ==
    /\ ocr_pc = "reply"
    /\ ridx <= Len(post_replies)
    /\ ocr_data' = [ocr_data EXCEPT
                       ![pidx] = SetKey(@, "replies",
                                        [post_replies EXCEPT
                                            ![ridx] = SetKey(@, "reply_ocr_text", <<>>)])]
    /\ ocr_pc' = "reply_images"
    /\ uidx' = 1
    /\ UNCHANGED <<ocr_script, ocr_pass, ocr_input, pidx, ridx, image_texts, fetch_log,
                   ocr_output>>
    /\ UNCHANGED crawlVars
    /\ FrameExcept("ocr")

\* one turn of the loop over the reply's image urls
FetchReplyImage ==
    /\ ocr_pc = "reply_images"
    /\ uidx <= Len(reply_images)
    /\ \E out \in Outcomes(reply_images[uidx]) :
        LET url == reply_images[uidx] IN
        /\ fetch_log' = Append(fetch_log, [arg |-> url, out |-> out])
        /\ IF out.ok \/ Caught(ocr_script, out.exc)
           THEN /\ ocr_data' =
                      [ocr_data EXCEPT
                          ![pidx] = SetKey(@, "replies",
                              [post_replies EXCEPT
                                  ![ridx] = SetKey(@, "reply_ocr_text",
                                      Append(@.reply_ocr_text,
                                             [url |-> url,
                                              ocr_text |-> ocr_from_url(url, out)]))])]
                /\ uidx' = uidx + 1
                /\ UNCHANGED ocr_pc
           ELSE /\ ocr_pc' = "crashed"
                /\ UNCHANGED <<ocr_data, uidx>>
    /\ UNCHANGED <<ocr_script, ocr_pass, ocr_input, pidx, ridx, image_texts, ocr_output>>
    /\ UNCHANGED crawlVars
    /\ FrameExcept("ocr")

\* the loop over the reply's image urls has ended
EndReply ==
    /\ ocr_pc = "reply_images"
    /\ uidx > Len(reply_images)
    /\ ocr_pc' = "reply"
    /\ ridx' = ridx + 1
    /\ uidx' = 1
    /\ UNCHANGED <<ocr_script, ocr_pass, ocr_input, ocr_data, pidx, image_texts, fetch_log,
                   ocr_output>>
    /\ UNCHANGED crawlVars
    /\ FrameExcept("ocr")

\* the loop over the replies has ended
EndReplies ==
    /\ ocr_pc = "reply"
    /\ ridx > Len(post_replies)
    /\ NextPost
    /\ UNCHANGED <<ocr_script, ocr_pass, ocr_input, ocr_data, fetch_log, ocr_output>>
    /\ UNCHANGED crawlVars
    /\ FrameExcept("ocr")

\* with open(output_path, 'w') as f: json.dump(data, f)
WriteOcrOutput ==
    /\ ocr_pc = "dump"
    /\ ocr_output' = Dumped(ocr_data)
    /\ ocr_pc' = "written"
    /\ UNCHANGED <<ocr_script, ocr_pass, ocr_input, ocr_data, pidx, ridx, uidx, image_texts,
                   fetch_log>>
    /\ UNCHANGED crawlVars
    /\ FrameExcept("ocr")

\* the script is run again, on the file it has written
RunOnOwnOutput ==
    /\ ocr_pc = "written"
    /\ ocr_pass = 1
    /\ ocr_pass' = 2
    /\ ocr_input' = ocr_output.data
    /\ ocr_data' = ocr_output.data
    /\ pidx' = 1
    /\ ridx' = 1
    /\ uidx' = 1
    /\ image_texts' = <<>>
    /\ fetch_log' = <<>>
    /\ ocr_pc' = IF ocr_output.data # <<>> THEN "post" ELSE "dump"
    /\ UNCHANGED <<ocr_script, ocr_output>>
    /\ UNCHANGED crawlVars
    /\ FrameExcept("ocr")

OcrNext ==
    \/ FetchPostImage
    \/ AttachPostTexts
    \/ StartReply
    \/ FetchReplyImage
    \/ EndReply
    \/ EndReplies
    \/ WriteOcrOutput
    \/ RunOnOwnOutput

OcrSpec == OcrInit /\ [][OcrNext]_vars

\* ===================================================================
\* Successive runs and their output files
\* ===================================================================
\* ticks of the clock in one second; strftime('%Y%m%d_%H%M%S') drops what
\* is below the second
TicksPerSecond == 2

\* datetime.now(timezone.utc).strftime('%Y%m%d_%H%M%S'): the stamp names the
\* second of the tick
Stamp(t) == t \div TicksPerSecond

Reasons == {"complete", "interrupt", "error"}

\* output_filename / dump_filename of a run of script s that ends for
\* reason r at tick t
OutputName(s, r, t) ==
    CASE s = "chan" -> <<PolFile>>
      [] s = "gabx" -> <<"gab_data_", Stamp(t), ".json">>
      [] s = "gabr" /\ r = "complete" -> <<"gab_data_from_list_", Stamp(t), ".json">>
      [] s = "gabr" /\ r = "interrupt" -> <<"gab_data_interrupt_dump_", Stamp(t), ".json">>
      [] s = "gabr" /\ r = "error" -> <<"gab_data_error_dump_", Stamp(t), ".json">>

\* whether a run of script s that ends for reason r with dataset d writes a file
Writes(s, r, d) ==
    CASE s = "chan" -> d # <<>>
      [] s = "gabx" -> r = "complete" /\ d # <<>>
      [] s = "gabr" -> r # "complete" \/ d # <<>>

\* what it writes
Written(s, d) == IF s = "chan" THEN Prefix(d, target) ELSE d

\* with open(name, "w") as f: json.dump(records, f)
WriteFile(name, records) ==
    disk' = {f \in disk : f.name # name} \cup {[name |-> name, data |-> records]}

\* time.sleep(...) of at least a second
Sleep == now_ticks' = now_ticks + TicksPerSecond

RunsInit ==
    /\ CrawlIdle
    /\ SideIdleExcept("runs")
    /\ run_script \in {"chan", "gabx", "gabr"}
    /\ run_no = 1
    /\ run_pc = "running"
    /\ logged_in = FALSE
    /\ run_dataset = <<>>
    /\ now_ticks = 0
    /\ disk = {}
    /\ persisted = <<>>

\* time passes
ClockTick ==
    /\ now_ticks < MaxTicks
    /\ now_ticks' = now_ticks + 1
    /\ UNCHANGED <<run_script, run_no, run_pc, logged_in, run_dataset, disk, persisted>>
    /\ UNCHANGED crawlVars
    /\ FrameExcept("runs")

\* time.sleep(90) # Give ample time for manual login
LoginWait ==
    /\ run_script \in {"gabx", "gabr"}
    /\ run_pc = "running"
    /\ ~logged_in
    /\ now_ticks + TicksPerSecond <= MaxTicks
    /\ Sleep
    /\ logged_in' = TRUE
    /\ UNCHANGED <<run_script, run_no, run_pc, run_dataset, disk, persisted>>
    /\ UNCHANGED crawlVars
    /\ FrameExcept("runs")

\* one record is appended; the Gab scripts pause a second after each post
RunAppendsRecord ==
    /\ run_pc = "running"
    /\ Len(run_dataset) < MaxRunPosts
    /\ IF run_script = "chan"
       THEN UNCHANGED now_ticks
       ELSE /\ logged_in
            /\ now_ticks + TicksPerSecond <= MaxTicks
            /\ Sleep
    /\ \E url \in 1..NumGabUrls : run_dataset' = Append(run_dataset, [post_url |-> url])
    /\ UNCHANGED <<run_script, run_no, run_pc, logged_in, disk, persisted>>
    /\ UNCHANGED crawlVars
    /\ FrameExcept("runs")

\* the run ends for reason r and persists what its script persists
RunEnds ==
    /\ run_pc = "running"
    /\ \E r \in Reasons :
        /\ (run_script # "chan" /\ r = "complete") => logged_in
        /\ IF Writes(run_script, r, run_dataset)
           THEN LET name == OutputName(run_script, r, now_ticks) IN
                /\ WriteFile(name, Written(run_script, run_dataset))
                /\ persisted' = Append(persisted,
                                       [run |-> run_no, name |-> name,
                                        data |-> Written(run_script, run_dataset)])
           ELSE UNCHANGED <<disk, persisted>>
    /\ run_pc' = "exited"
    /\ UNCHANGED <<run_script, run_no, logged_in, run_dataset, now_ticks>>
    /\ UNCHANGED crawlVars
    /\ FrameExcept("runs")

\* the same script is started again
RunStartsAgain ==
    /\ run_pc = "exited"
    /\ run_no < MaxRuns
    /\ run_no' = run_no + 1
    /\ run_pc' = "running"
    /\ logged_in' = FALSE
    /\ run_dataset' = <<>>
    /\ UNCHANGED <<run_script, now_ticks, disk, persisted>>
    /\ UNCHANGED crawlVars
    /\ FrameExcept("runs")

RunsNext ==
    \/ ClockTick
    \/ LoginWait
    \/ RunAppendsRecord
    \/ RunEnds
    \/ RunStartsAgain

RunsSpec == RunsInit /\ [][RunsNext]_vars

\* ===================================================================
\* Downloads of the OCR scripts
\* ===================================================================
total_retries == 3

\* Retry(total=total_retries, read=total_retries, connect=total_retries, ...)
\* A counter is <<n>>, or <<>> for None; read_off stands for read=False.
Retry(total, connect, read, read_off) ==
    [total |-> total, connect |-> connect, read |-> read, read_off |-> read_off]

\* the Retry object every request of the script starts with: the one
\* make_session_with_retries mounts, or the one of requests.get, whose
\* adapter is made with max_retries=DEFAULT_RETRIES: Retry(0, read=False)
max_retries(s) ==
    IF s = "chan"
    THEN Retry(total_retries, <<total_retries>>, <<total_retries>>, FALSE)
    ELSE NoRetry

status_forcelist(s) == IF s = "chan" THEN {500, 502, 503, 504} ELSE {}

\* what one attempt meets: a response with a status, or an error
Response(code) == [kind |-> "response", code |-> code, exc |-> "none"]
Failure(exc) == [kind |-> "error", code |-> 0, exc |-> exc]

Met ==
    {Response(c) : c \in {200, 403, 404, 500, 502, 503, 504}}
    \cup {Failure(e) : e \in {"ConnectTimeoutError", "NewConnectionError",
                              "ReadTimeoutError", "ProtocolError", "SSLError"}}

\* the classes Retry.increment tells apart
IsConnectionError(e) == e \in {"ConnectTimeoutError", "NewConnectionError"}
IsReadError(e) == e \in {"ReadTimeoutError", "ProtocolError"}

Decremented(counter) == [k \in 1..Len(counter) |-> counter[k] - 1]

\* Retry.increment re-raises the error of a read when read is False
Reraises(r, met) == met.kind = "error" /\ IsReadError(met.exc) /\ r.read_off

\* Retry.increment: total goes down by one, and the counter of the error's
\* class with it; an error of another class (a TLS error) counts against
\* total alone
increment(r, met) ==
    [r EXCEPT !.total = @ - 1,
              !.connect = IF met.kind = "error" /\ IsConnectionError(met.exc)
                          THEN Decremented(@) ELSE @,
              !.read = IF met.kind = "error" /\ IsReadError(met.exc)
                       THEN Decremented(@) ELSE @]

\* Retry.is_exhausted: a counter that is set and not 0 is below 0
is_exhausted(r) ==
    \E x \in {r.total} \cup Range(r.connect) \cup Range(r.read) : x < 0

\* whether urlopen goes round again after what the attempt met
GoesRound(s, r, met) ==
    /\ met.kind = "response" => met.code \in status_forcelist(s)
    /\ ~Reraises(r, met)
    /\ ~is_exhausted(increment(r, met))

\* what the caller of get() is left with when urlopen does not go round again
Outcome(s, met) ==
    CASE met.kind = "error" -> IF met.exc = "SSLError" THEN "SSLError" ELSE "ConnectionError"
      [] met.kind = "response" /\ met.code \in status_forcelist(s) -> "RetryError"
      [] met.kind = "response" /\ met.code = 200 -> "image"
      [] OTHER -> IF s = "chan" THEN "HTTPError" ELSE "UnidentifiedImageError"

FetchInit ==
    /\ CrawlIdle
    /\ SideIdleExcept("fetch")
    /\ fetch_pc = "get"
    /\ fetch_script \in {"chan", "gab"}
    /\ retries = max_retries(fetch_script)
    /\ tried = <<>>
    /\ fetch_result = "none"

\* one attempt of the download, after which urlopen sleeps and goes round again
AttemptRetried ==
    /\ fetch_pc = "get"
    /\ \E met \in Met :
        /\ GoesRound(fetch_script, retries, met)
        /\ tried' = Append(tried, met)
        /\ retries' = increment(retries, met)
    /\ UNCHANGED <<fetch_pc, fetch_script, fetch_result>>
    /\ UNCHANGED crawlVars
    /\ FrameExcept("fetch")

\* the attempt after which get() returns or raises
AttemptEnds ==
    /\ fetch_pc = "get"
    /\ \E met \in Met :
        /\ ~GoesRound(fetch_script, retries, met)
        /\ tried' = Append(tried, met)
        /\ fetch_result' = Outcome(fetch_script, met)
    /\ fetch_pc' = "done"
    /\ UNCHANGED <<fetch_script, retries>>
    /\ UNCHANGED crawlVars
    /\ FrameExcept("fetch")

FetchNext == AttemptRetried \/ AttemptEnds

FetchSpec == FetchInit /\ [][FetchNext]_vars

\* ===================================================================
\* Properties
\* ===================================================================
Exited == pc = "exited"

\* some output file holds exactly this array
HasFile(records) == \E n \in FileNames : files[n] = Dumped(records)

NoFileAtAll == \A n \in FileNames : files[n] = Absent

\* the mocked archive of the end-to-end scenario: 5 thread URLs, then 3
TwoPageArchive == [p \in 1..MaxPages |-> IF p = 1 THEN Run(1, 5) ELSE Run(6, 3)]

\* C1: in every reachable state of every crawl run the accumulator holds at
\* most target records.
C1_TargetBound == Len(dataset) <= target

\* C2: when the process has exited after a KeyboardInterrupt that arrived with
\* K records in the accumulator, no record has been appended since and some
\* output file holds exactly those K records in append order.
C2_InterruptDump == (Exited /\ interrupted) => (~late_append /\ HasFile(dataset))

\* C3: when the process has exited, exactly one persist has happened and an
\* output file holds every record of the accumulator.
C3_ExactlyOnePersist == Exited => (persists = 1 /\ HasFile(dataset))

\* C4: with listing pages of 5 and 3 thread URLs, a target of 6 and every
\* extraction succeeding, the finished run has visited two listing pages,
\* extracted 6 URLs and persisted exactly 6 records.
C4_EndToEnd ==
    (/\ script = "chan" /\ target = 6 /\ archive = TwoPageArchive
     /\ Exited /\ ~interrupted /\ ~fault
     /\ empty_at = 0 /\ Len(dataset) = Len(attempts))
    => (listings = 2 /\ Len(attempts) = 6 /\ Len(dataset) = 6 /\ HasFile(dataset))

\* C5: the extractor is invoked at most once per distinct URL within one run.
C5_AtMostOnce == NoDuplicates(attempts)

\* C6: in the Gab explore crawl unique_post_urls never holds a URL twice, its
\* members are exactly the members of processed_urls, and it is never longer
\* than POSTS_TO_SCRAPE; also after a stale-element restart.
C6_CandidateList ==
    script = "gabx" =>
        /\ NoDuplicates(unique_post_urls)
        /\ Range(unique_post_urls) = processed_urls
        /\ Len(unique_post_urls) <= target

\* a restart has happened, a URL is in the list and a later link element
\* that names the same URL has been passed
C6_Witness ==
    /\ script = "gabx" /\ restarted /\ pc = "collect"
    /\ unique_post_urls # <<>>
    /\ \E a, b \in 1..i :
         /\ a < b
         /\ urljoin(current_link_elements[a]) = urljoin(current_link_elements[b])
         /\ urljoin(current_link_elements[a]) \in processed_urls

ExtractorReturns ==
    /\ pc \in {"extract", "tail", "details"}
    /\ pc' \in {"thread_loop", "post_loop", "url_loop"}

\* every URL of the frontier has been taken up by the crawl loop
FrontierDone ==
    CASE script = "chan" -> attempts = discovered
      [] script = "gabx" -> attempts = unique_post_urls
      [] script = "gabr" -> /\ Len(attempts) + Len(skipped) = Len(gab_urls)
                            /\ Range(attempts) \cup Range(skipped) = Range(gab_urls)

\* C8: an extractor call that returns None / {} leaves the accumulator
\* unchanged and the loop moves on to the next URL; a run that ends without
\* interrupt or session fault has attempted every URL of its frontier unless
\* the target was reached.
C8_FailureIsSkipped ==
    /\ [][(ExtractorReturns /\ last_result' = "empty") => (dataset' = dataset /\ i' = i + 1)]_vars
    /\ []((Exited /\ ~interrupted /\ ~fault) => (FrontierDone \/ Len(dataset) >= target))

\* a finished run whose first extraction failed and a later one succeeded
C8_Witness ==
    /\ Exited /\ ~interrupted /\ ~fault
    /\ Len(attempts) >= 2
    /\ Record(attempts[1]) \notin Range(dataset)
    /\ Record(attempts[Len(attempts)]) \in Range(dataset)

\* C9: when the process has exited after the rendering session raised, an
\* output file holds every record appended before the fault, and nothing was
\* appended after it.
C9_FaultStillPersists ==
    (Exited /\ fault) => (Len(dataset) = k_fault /\ HasFile(dataset))

\* C10: once a KeyboardInterrupt has been delivered no extraction is started.
C10_NoExtractionAfterInterrupt == [][interrupted => attempts' = attempts]_vars


\* ------------------------------------------------------ field normalizers
HasDigit(text) == \E k \in 1..Len(text) : text[k] \in Digits

\* end (exclusive) of the first numeric token: digits, separators, points
TokenEnd(text) == SpanWhile(text, Find(text, 1, Digits), Digits \cup {",", "."})

\* the first numeric token, thousands separators removed
NumericToken(text) == Remove(SubSeq(text, Find(text, 1, Digits), TokenEnd(text) - 1), ",")

\* the character right after the token, "" at the end of the text
SuffixAfter(text) == IF TokenEnd(text) <= Len(text) THEN text[TokenEnd(text)] ELSE ""

\* K=10^3, M=10^6, B=10^9, T=10^12; no suffix scales by 1
Magnitude(letter) ==
    CASE letter = "K" -> 3 [] letter = "M" -> 6 [] letter = "B" -> 9 [] letter = "T" -> 12
      [] OTHER -> 0

\* the text reads: a numeral, then an upper-case suffix or nothing
PlainCount(text) ==
    /\ text # None
    /\ HasDigit(text)
    /\ FloatOk(NumericToken(text))
    /\ SuffixAfter(text) \in {"K", "M", "B", "T", ""}

\* C13: extract_count_from_string returns the first numeric token scaled by
\* the magnitude suffix that follows it ('1,2' gives 12, '1.2K' gives 1200,
\* '4M' gives 4000000), and 0 for the empty string, for None and for every
\* text without a digit.
C13_FirstTokenScaled ==
    norm_pc = "counted" =>
        /\ (text_to_parse = None \/ ~HasDigit(text_to_parse)) => count = Zero
        /\ PlainCount(text_to_parse) =>
               count = ExactScaled(NumericToken(text_to_parse),
                                   Magnitude(SuffixAfter(text_to_parse)))

\* the suffix letter after the token, written in upper case
WithUpperSuffix(text) == [text EXCEPT ![TokenEnd(text)] = UpperChar(@)]

\* the text reads: a numeral, then a suffix letter of either case
SuffixedCount(text) ==
    /\ text # None
    /\ HasDigit(text)
    /\ FloatOk(NumericToken(text))
    /\ UpperChar(SuffixAfter(text)) \in {"K", "M", "B", "T"}

\* C14: the magnitude suffix is case-insensitive: a numeral followed by a
\* lower-case suffix letter gives what the same numeral gives with the
\* upper-case letter.
C14_SuffixCaseInsensitive ==
    (norm_pc = "counted" /\ SuffixedCount(text_to_parse)) =>
        count = extract_count_from_string(WithUpperSuffix(text_to_parse))

\* the timestamps Gab prints: every field valid, the literal GMT, an offset
WellFormedDates ==
    {GabDate(x[1], x[2], x[3], "2025", x[4], "GMT", x[5]) :
        x \in {y \in Weekdays \X Months \X DayTexts \X ValidTimes \X Offsets :
                 y[3] \in DaysIn[y[2]]}}

\* the offset an ISO-8601 rendering ends with, in minutes east of UTC
IsoOffsetMinutes(iso) ==
    CASE iso[Len(iso)] = "-07:00" -> 0 - 420
      [] iso[Len(iso)] = "+05:30" -> 330
      [] iso[Len(iso)] = "+00:00" -> 0
      [] OTHER -> 9999

\* iso renders the instant and the offset of the well-formed text base
RendersIso(iso, base) ==
    /\ iso # None
    /\ Len(iso) = 8
    /\ SubSeq(iso, 1, 7) = <<base[7], "-", MonthNumber[base[3]], "-", base[5], "T", base[9]>>
    /\ IsoOffsetMinutes(iso) = OffsetMinutes[base[12]]

\* C15: parse_gab_datetime returns None for an empty text, for None and for
\* every text that does not read as a Gab timestamp once its parenthesized
\* annotations are taken away; for one that does, it returns the ISO-8601
\* rendering with the offset of the input, annotated or not.
C15_ParseOrNone ==
    norm_pc = "parsed" =>
        /\ dt_string \in {None, <<>>} => timestamp_iso = None
        /\ timestamp_iso # ValueError
        /\ \A base \in DateTexts : \A ann \in ClosedAnnotations \cup {<<>>} :
             \A where \in {"end", "first"} :
               dt_string = Annotated(base, ann, where) =>
                   IF base \in WellFormedDates THEN RendersIso(timestamp_iso, base)
                   ELSE timestamp_iso = None
        /\ \A base \in DateTexts : \A ann \in OpenAnnotations :
               dt_string = Annotated(base, ann, "end") => timestamp_iso = None

\* an annotated timestamp with a western offset was parsed
C15_Witness ==
    /\ norm_pc = "parsed"
    /\ \E k \in 1..Len(dt_string) : dt_string[k] = "("
    /\ timestamp_iso # None
    /\ IsoOffsetMinutes(timestamp_iso) < 0


\* ----------------------------------------------------------- field lookup
LookupEnded == res_pc \in {"returned", "timeout"}

\* condition k locates an element at some poll of the wait
EverLocates(k) == appears[k] # 0 /\ appears[k] <= wait_polls

\* the number of times condition k was called
Calls(k) == Cardinality({n \in 1..Len(invoked) : invoked[n][2] = k})

\* C11: when only the second condition ever locates an element the lookup
\* returns that element and calls no condition after the match; when no
\* condition ever locates one the lookup ends with the TimeoutException that
\* the caller maps to the sentinel; a condition that raises counts as not matching.
C11_FirstMatchOrExhausted ==
    /\ (LookupEnded /\ \A k \in 1..NumStrategies : EverLocates(k) <=> k = 2) =>
           /\ res_pc = "returned"
           /\ located = 2
           /\ field = "element"
    /\ res_pc = "returned" => invoked[Len(invoked)] = <<poll, located>>
    /\ (LookupEnded /\ \A k \in 1..NumStrategies : ~EverLocates(k)) =>
           /\ res_pc = "timeout"
           /\ field = Sentinel
           /\ located = 0

\* the first condition raised at two polls before the second one matched
C11_Witness ==
    /\ res_pc = "returned"
    /\ located = 2
    /\ \A k \in 1..NumStrategies : EverLocates(k) <=> k = 2
    /\ poll = 2
    /\ Calls(1) = 2
    /\ Calls(3) = 1

\* C12 as stated: each condition has a wait of its own, so an element is
\* returned only after every condition before it was polled for the whole wait.
C12_Original ==
    res_pc = "returned" => \A k \in 1..(located - 1) : Calls(k) = wait_polls

\* C12: at every poll the conditions are consulted in list order and the
\* first that locates an element at that poll wins: an element is returned
\* only at a poll at which every condition before it was called and located
\* nothing; one wait bounds the whole list.
C12_PriorityWithinPoll ==
    /\ res_pc = "returned" =>
           \A k \in 1..(located - 1) :
               /\ ~Present(k, poll)
               /\ \E n \in 1..Len(invoked) : invoked[n] = <<poll, k>>
    /\ poll <= wait_polls

\* the second condition's element is returned at the first poll although the
\* first condition would have located its own at the second poll of the wait
C12_Witness ==
    /\ res_pc = "returned"
    /\ located = 2
    /\ poll = 1
    /\ appears[1] = 2
    /\ wait_polls >= 2


\* -------------------------------------------------------------- extractors
\* C16: in every record and every reply an extractor returns, the media URL
\* list holds no URL twice.
C16_MediaNoDuplicates ==
    (ext_pc \in {"returned", "taken"} /\ post_data # NoData) =>
        /\ NoDuplicates(post_data.image_urls)
        /\ \A k \in 1..Len(post_data.replies) : NoDuplicates(post_data.replies[k].image_urls)

\* the timestamp text reads as a Gab timestamp once closed annotations are gone
Normalizable(raw) ==
    \E base \in WellFormedDates : \E ann \in ClosedAnnotations \cup {<<>>} :
        raw = Annotated(base, ann, "end")

\* the instant a well-formed timestamp text names, in seconds
InstantOf(raw) ==
    LET day == CASE raw[3] = "Feb" -> 38 [] raw[5] = "07" -> 188 [] OTHER -> 211
    IN day * 86400 + 28782 - 60 * OffsetMinutes[raw[12]]

\* the page shows a post the filters reject
Disqualified(pg) ==
    \/ pg.timestamp = TimeoutException
    \/ ~Normalizable(pg.timestamp)
    \/ now_utc - InstantOf(pg.timestamp) < min_post_age_days * 86400
    \/ Cardinality({pg.replies[k].comment : k \in 1..Len(pg.replies)} \ {0}) < min_replies_required

\* C19: the rescraper's get_post_details returns no record for a post whose
\* timestamp is not found or does not normalize, that is younger than
\* MIN_POST_AGE_DAYS or has fewer than MIN_REPLIES_REQUIRED replies, and
\* the caller appends nothing for it; a record it returns is complete.
C19_DisqualifiedNotReturned ==
    (extractor = "gabr" /\ ext_pc \in {"returned", "taken"}) =>
        /\ Disqualified(page) => (post_data = NoData /\ dataset = <<>>)
        /\ post_data # NoData =>
               /\ post_data.timestamp_iso # None
               /\ Len(post_data.replies) >= min_replies_required
        /\ (ext_pc = "taken" /\ post_data # NoData) => dataset = <<post_data>>

\* a post that passes non-trivial thresholds was returned and appended
C19_Witness ==
    /\ extractor = "gabr"
    /\ ext_pc = "taken"
    /\ min_post_age_days = 1
    /\ min_replies_required = 1
    /\ dataset # <<>>
    /\ ~Disqualified(page)


\* ---------------------------------------------------------------- C17, C18
RECURSIVE Concat(_)
Concat(ss) == IF ss = <<>> THEN <<>> ELSE Head(ss) \o Concat(Tail(ss))

\* the elements of image_urls a run of script s has to go through, in order
MediaOfPost(s, post) ==
    Get(post, "image_urls", <<>>)
    \o (IF s = "gab"
        THEN LET reps == Get(post, "replies", <<>>) IN
             Concat([r \in 1..Len(reps) |-> Get(reps[r], "image_urls", <<>>)])
        ELSE <<>>)

MediaOf(s, d) == Concat([k \in 1..Len(d) |-> MediaOfPost(s, d[k])])

LogArgs == [k \in 1..Len(fetch_log) |-> fetch_log[k].arg]

\* the entries gab_ocr_extractor.py has attached to a dataset, in order
AttachedOfPost(post) ==
    post.image_urls
    \o Concat([r \in 1..Len(post.replies) |-> post.replies[r].reply_ocr_text])

AttachedEntries(d) == Concat([k \in 1..Len(d) |-> AttachedOfPost(d[k])])

\* the k-th download of the run: its text, or the marker of its failure
EntryOfFetch(k) ==
    [url |-> fetch_log[k].arg,
     ocr_text |-> IF fetch_log[k].out.ok THEN fetch_log[k].out.text
                  ELSE Marker(fetch_log[k].out.exc)]

\* the k-th download of the run: its stripped text, empty after a failure
StrippedOfFetch(k) ==
    IF fetch_log[k].out.ok THEN Strip(fetch_log[k].out.text) ELSE <<>>

\* the downloads made for the p-th record by ocr_extractor.py
FetchesOfPost(d, p) ==
    LET before == Len(MediaOf("chan", SubSeq(d, 1, p - 1)))
        n == Len(Get(d[p], "image_urls", <<>>))
    IN  [j \in 1..n |-> StrippedOfFetch(before + j)]

\* C17: a fetch, decode or OCR failure on one media URL never aborts the
\* run: when the run has written its output, the output holds every record
\* of the input, every media URL of every record was processed in order, a
\* failed entry carries the error marker (gab) or contributes nothing to the
\* record's text (4chan), and every other entry carries its own text.
C17_FailureIsolated ==
    /\ ocr_pc # "crashed"
    /\ ocr_pc = "written" =>
        /\ ocr_output.st = "complete"
        /\ Len(ocr_output.data) = Len(ocr_input)
        /\ \A p \in 1..Len(ocr_input) : ocr_output.data[p].post_url = ocr_input[p].post_url
        /\ LogArgs = MediaOf(ocr_script, ocr_input)
        /\ IF ocr_script = "gab"
           THEN AttachedEntries(ocr_output.data)
                    = [k \in 1..Len(fetch_log) |-> EntryOfFetch(k)]
           ELSE \A p \in 1..Len(ocr_input) :
                    ocr_output.data[p].ocr_text
                        = Join(Separator,
                               SelectSeq(FetchesOfPost(ocr_input, p), LAMBDA t : t # <<>>))

\* the first of three downloads failed, the two after it (one of them for a
\* later record or reply) gave text, and the output was written
C17_Witness ==
    /\ ocr_pc = "written"
    /\ ocr_pass = 1
    /\ Len(ocr_input) = 2
    /\ Len(fetch_log) = 3
    /\ ~fetch_log[1].out.ok
    /\ fetch_log[2].out.ok /\ Strip(fetch_log[2].out.text) # <<>>
    /\ fetch_log[3].out.ok /\ Strip(fetch_log[3].out.text) # <<>>

\* the elements of image_urls that already have a text in dataset d
CoveredOfPost(s, post) ==
    IF s = "chan"
    THEN IF "ocr_text" \in DOMAIN post THEN Range(Get(post, "image_urls", <<>>)) ELSE {}
    ELSE {e \in Range(Get(post, "image_urls", <<>>)) : ~IsStr(e)}
         \cup UNION {Range(Get(r, "image_urls", <<>>)) :
                     r \in {x \in Range(Get(post, "replies", <<>>)) :
                            "reply_ocr_text" \in DOMAIN x}}

Covered(s, d) == UNION {CoveredOfPost(s, d[k]) : k \in 1..Len(d)}

\* C18: a second run on the output of the first leaves every attached text
\* and every media URL as it was, and downloads nothing that already has a
\* text.
C18_Idempotent ==
    (ocr_pass = 2 /\ ocr_pc = "written") =>
        /\ ocr_output.data = ocr_input
        /\ \A k \in 1..Len(fetch_log) : fetch_log[k].arg \notin Covered(ocr_script, ocr_input)

\* ---------------------------------------------------------------------- C20
\* the file of name n, as it is on the disk
OnDisk(n) == {f.data : f \in {g \in disk : g.name = n}}

\* C20: a persist never overwrites the output of an earlier run: every file
\* a run has written still holds what that run wrote.
C20_NoOverwrite ==
    \A k \in 1..Len(persisted) : OnDisk(persisted[k].name) = {persisted[k].data}

\* ---------------------------------------------------------------------- C21
\* C21: a persist is atomic: at every point of a run, every output path
\* either does not exist or holds one complete JSON array; no output path
\* ever holds a partially written array.
C21_AtomicPersist ==
    \A name \in FileNames : files[name].st \in {"absent", "complete"}

\* the identifiers of the replies of a record
ReplyIds(record) ==
    {record.replies[k].reply_id : k \in {j \in 1..Len(record.replies) :
                                           "reply_id" \in DOMAIN record.replies[j]}}

\* C22: the identifier of a returned record is the one its URL gives, whatever
\* the document holds, and no identifier of a reply is read from an attribute
\* of the document or made up from an index and the clock.
C22_IdentifierFromUrl ==
    (ext_pc # "call" /\ post_data # NoData) =>
        /\ post_data.post_id = UrlId(post_data.post_url)
        /\ \A id \in ReplyIds(post_data) :
               id.from \notin {"data-comment", "id attribute", "index and clock"}

\* the fields an extractor resolves by a lookup in the document
LookedUp(x) == IF x = "chan" THEN {"author", "text", "images"} ELSE {"text", "images", "counts"}

\* the field of a record a lookup resolves
FieldOf(record, f) ==
    CASE f = "author" -> record.author
      [] f = "text" -> record.text
      [] f = "images" -> record.image_urls
      [] f = "counts" -> record.reposts_count

\* what a field holds when it was not resolved
Sentinels ==
    {None, Zero, <<>>, GabText("nothing"), GabText("raises"),
     GabReplyText("nothing"), GabReplyText("raises")}

\* C25: when the post element is there and the post is not disqualified, the
\* record is returned whatever lookups of its fields and of its replies' fields
\* failed, and every field whose lookup failed holds a sentinel.
C25_FieldFailureIsolated ==
    (/\ ext_pc # "call"
     /\ page.container
     /\ ~(extractor = "gabr" /\ Disqualified(page))) =>
        /\ post_data # NoData
        /\ \A f \in LookedUp(extractor) :
               page.faults[f] # "found" => FieldOf(post_data, f) \in Sentinels

\* the position in the document of the first candidate whose data-comment
\* could be read and is c
FirstRead(pg, c) ==
    LET read == {k \in 1..Len(pg.replies) :
                    pg.replies[k].comment = c /\ pg.replies[k].stale # "early"}
    IN CHOOSE k \in read : \A j \in read : k <= j

\* C30: in a record the rescraper returns, every reply_id is the data-comment
\* of a candidate, the replies follow the document order of the first
\* candidates that carry their identifiers (so no two replies share one), and
\* each reply is built from that first candidate.
C30_ReplyIdsDistinct ==
    (ext_pc # "call" /\ extractor = "gabr" /\ post_data # NoData) =>
        LET reps == post_data.replies IN
        /\ \A k \in 1..Len(reps) :
              /\ reps[k].reply_id.from = "data-comment"
              /\ \E j \in 1..Len(page.replies) :
                    page.replies[j].comment = reps[k].reply_id.value
              /\ reps[k].reply_text =
                    GabReplyText(page.replies[FirstRead(page, reps[k].reply_id.value)].lookup)
        /\ \A a, b \in 1..Len(reps) :
              a < b => FirstRead(page, reps[a].reply_id.value)
                         < FirstRead(page, reps[b].reply_id.value)

\* two replies come back from a page on which both selectors select the two
\* divs that carry an identifier, and a third div carries none
C30_Witness ==
    /\ ext_pc # "call" /\ extractor = "gabr" /\ post_data # NoData
    /\ Len(post_data.replies) = 2
    /\ Len(all_reply_elements(page.replies)) > 3
    /\ \E j \in 1..Len(page.replies) : page.replies[j].comment = 0

\* the keys OCR enrichment attaches
OcrKeys == {"ocr_text", "reply_ocr_text"}

\* object after has every key of object before, with the value it had, but
\* for the keys in except, and no new key but the OCR text
SameBut(before, after, except) ==
    /\ DOMAIN before \subseteq DOMAIN after
    /\ DOMAIN after \ DOMAIN before \subseteq OcrKeys
    /\ \A key \in DOMAIN before \ (OcrKeys \cup except) : after[key] = before[key]

\* C28: the output of an OCR run holds the records of its input in the same
\* order, and every field of every record and of every reply but the OCR
\* text, the list of media URLs included, has the value it had in the input.
C28_OnlyOcrTextChanges ==
    (ocr_pc = "written" /\ ocr_pass = 1) =>
        /\ Len(ocr_output.data) = Len(ocr_input)
        /\ \A p \in 1..Len(ocr_input) :
              LET before == ocr_input[p]
                  after == ocr_output.data[p]
              IN /\ SameBut(before, after, {"replies"})
                 /\ Len(Get(after, "replies", <<>>)) = Len(Get(before, "replies", <<>>))
                 /\ \A r \in 1..Len(Get(before, "replies", <<>>)) :
                       SameBut(before.replies[r], after.replies[r], {})

\* C29: when an OCR run has written its output, one download was made for
\* every media URL of every record and of every reply of the input, in order,
\* and every record and every reply that has media carries a text.
C29_EveryMediaHasText ==
    (ocr_pc = "written" /\ ocr_pass = 1) =>
        /\ LogArgs = MediaOf("gab", ocr_input)
        /\ \A p \in 1..Len(ocr_input) :
              LET after == ocr_output.data[p] IN
              /\ Range(Get(after, "image_urls", <<>>)) \subseteq CoveredOfPost(ocr_script, after)
              /\ \A r \in 1..Len(Get(after, "replies", <<>>)) :
                    Get(after.replies[r], "image_urls", <<>>) # <<>>
                        => "reply_ocr_text" \in DOMAIN after.replies[r]

\* what the claim calls a retryable failure
Retryable(met) ==
    \/ met.kind = "error" /\ met.exc # "SSLError"
    \/ met.kind = "response" /\ met.code \in {500, 502, 503, 504}

\* C24: a download makes at most 1 + total_retries attempts, every attempt
\* but the last met a retryable failure, and the download stops before its
\* last retry only on a success or a non-retryable failure (a 4xx status, a
\* TLS error), so that every download, of either script, retries.
C24_RetriesOnlyRetryable ==
    /\ Len(tried) <= 1 + total_retries
    /\ \A k \in 1..Len(tried) - 1 : Retryable(tried[k])
    /\ fetch_pc = "get" => \A k \in 1..Len(tried) : Retryable(tried[k])
    /\ (fetch_pc = "done" /\ Len(tried) < 1 + total_retries) => ~Retryable(tried[Len(tried)])

\* C23: when the process has exited, on whatever path, no webdriver session
\* it created is still open.
C23_SessionsReleased == pc = "exited" => sessions = 0

\* the URLs of the records of a sequence, in order
UrlsOf(records) == [k \in 1..Len(records) |-> records[k].post_url]

\* s is what is left of t when some of its elements are taken out
RECURSIVE IsSubsequence(_, _)
IsSubsequence(s, t) ==
    IF s = <<>> THEN TRUE
    ELSE IF t = <<>> THEN FALSE
    ELSE IF Head(s) = Head(t) THEN IsSubsequence(Tail(s), Tail(t))
    ELSE IsSubsequence(s, Tail(t))

\* the order in which the run came to know its URLs
DiscoveryOrder ==
    CASE script = "chan" -> discovered
      [] script = "gabx" -> unique_post_urls
      [] script = "gabr" -> gab_urls

\* C27: the accumulator holds, in discovery order, records of URLs whose
\* extraction was attempted; it changes only by a record being appended at its
\* end; and a complete output file holds the accumulator as it is.
C27_DiscoveryOrder ==
    /\ [](/\ IsSubsequence(UrlsOf(dataset), DiscoveryOrder)
          /\ IsSubsequence(UrlsOf(dataset), attempts)
          /\ \A name \in FileNames :
                files[name].st = "complete" => files[name].data = dataset)
    /\ [][\/ dataset' = dataset
          \/ /\ Len(dataset') = Len(dataset) + 1
             /\ SubSeq(dataset', 1, Len(dataset)) = dataset]_vars

\* a finished run that persisted two records, of the first and the third of
\* three URLs it took up, the second extraction having failed
C27_Witness ==
    /\ Exited
    /\ Len(attempts) = 3
    /\ UrlsOf(dataset) = <<attempts[1], attempts[3]>>
    /\ attempts[1] # attempts[3]
    /\ \E name \in FileNames : files[name] = Dumped(dataset)

\* A run of a script goes on as long as it has a step to take.
LiveSpec == Spec /\ WF_vars(Next)

\* C26: every run of a script comes to an end.
C26_Terminates == <>Exited
====
